---- MODULE Spec2Model ----
(***************************************************************************)
(* Key derivation, public-key encoding and address derivation of           *)
(* MetaMask/native-utils.                                                  *)
(*                                                                         *)
(* Two native implementations live in the repository and are both          *)
(* modelled: HybridNativeUtils.cpp (impl "NativeUtils", the current one,   *)
(* reached through index.tsx) and HybridNitroSecp256k1.cpp (impl "Nitro"). *)
(* Bytes are integers 0..255, buffers are sequences of bytes, strings are  *)
(* sequences of character codes.  The functions of the linked libraries    *)
(* (libsecp256k1, Botan, keccak-tiny) are computed: secp256k1 and Ed25519  *)
(* point arithmetic, SHA-512 and Keccak-256.                               *)
(***************************************************************************)
EXTENDS Integers, Sequences, FiniteSets, Bags, TLC

\* ------------------------------------------------------------------------
\* Bounds of the model
\* ------------------------------------------------------------------------
NumThreads == 2
MaxCalls == 2

Threads == 1..NumThreads

\* ------------------------------------------------------------------------
\* Bytes and buffers
\* ------------------------------------------------------------------------
NULL == 0

Fill(n, v) == [i \in 1..n |-> v]

SetByte(s, i, v) == [s EXCEPT ![i] = v]

Slice(s, from, to) == [i \in 1..(to - from + 1) |-> s[from + i - 1]]

\* secp256k1 group order N, big-endian
SECP256K1_N ==
  << 255, 255, 255, 255, 255, 255, 255, 255,
     255, 255, 255, 255, 255, 255, 255, 254,
     186, 174, 220, 230, 175, 72, 160, 59,
     191, 210, 94, 140, 208, 54, 65, 65 >>

\* ------------------------------------------------------------------------
\* Scalar validator of HybridNitroSecp256k1.cpp
\* ------------------------------------------------------------------------
\* bytes32_gte: loop i = 0..31, first differing byte decides, equal => true
RECURSIVE bytes32_gte_from(_, _, _)
bytes32_gte_from(a, b, i) ==
  IF i > 32 THEN TRUE
  ELSE IF a[i] > b[i] THEN TRUE
  ELSE IF a[i] < b[i] THEN FALSE
  ELSE bytes32_gte_from(a, b, i + 1)

\* a comparison that forgets the equal case
bytes32_gte_strict(a, b) == bytes32_gte_from(a, b, 1) /\ a # b

bytes32_gte(a, b) == bytes32_gte_from(a, b, 1)

RECURSIVE bytes32_is_zero_from(_, _)
bytes32_is_zero_from(bytes, i) ==
  IF i > 32 THEN TRUE
  ELSE IF bytes[i] # 0 THEN FALSE
  ELSE bytes32_is_zero_from(bytes, i + 1)

bytes32_is_zero(bytes) == bytes32_is_zero_from(bytes, 1)

\* a validator without the zero check
validatePrivateKeyScalar_noZero(privateKeyBytes) ==
  IF bytes32_gte(privateKeyBytes, SECP256K1_N) THEN "private key invalid 3" ELSE ""

\* validatePrivateKeyScalar: "" when accepted, else the message thrown
validatePrivateKeyScalar(privateKeyBytes) ==
  IF bytes32_is_zero(privateKeyBytes) THEN "private key invalid 3"
  ELSE IF bytes32_gte(privateKeyBytes, SECP256K1_N) THEN "private key invalid 3"
  ELSE ""

\* ------------------------------------------------------------------------
\* Hex decoding (hex_utils.cpp and its copy in HybridNitroSecp256k1.cpp)
\* ------------------------------------------------------------------------
isValidHexChar(c) ==
  (c >= 48 /\ c <= 57) \/ (c >= 65 /\ c <= 70) \/ (c >= 97 /\ c <= 102)

\* a digit table that leaves out the + 10 of the upper-case letters
hexCharToByte_upperFromZero(c) ==
  IF c >= 48 /\ c <= 57 THEN c - 48
  ELSE IF c >= 65 /\ c <= 70 THEN c - 65
  ELSE IF c >= 97 /\ c <= 102 THEN c - 97 + 10
  ELSE -1

hexCharToByte(c) ==
  IF c >= 48 /\ c <= 57 THEN c - 48
  ELSE IF c >= 65 /\ c <= 70 THEN c - 65 + 10
  ELSE IF c >= 97 /\ c <= 102 THEN c - 97 + 10
  ELSE -1

\* validateHexString: "" when accepted, else the kind of failure
validateHexString(hex) ==
  IF Len(hex) % 2 # 0 THEN "odd"
  ELSE IF \E i \in 1..Len(hex) : ~isValidHexChar(hex[i]) THEN "nonhex"
  ELSE ""

\* a decoder that takes the second character of a pair as the high nibble
hexToBytes_swapNibbles(hex, expectedLen, impl) ==
  IF validateHexString(hex) # "" \/ Len(hex) # expectedLen * 2
  THEN [err |-> "Invalid hex string length", bytes |-> << >>]
  ELSE [err |-> "",
        bytes |-> [i \in 1..expectedLen |->
                     ((hexCharToByte(hex[2 * i]) * 16) % 256)
                     + hexCharToByte(hex[2 * i - 1])]]

\* a decoder whose error names the character it stopped at
hexToBytes_echoChar(hex, expectedLen, impl) ==
  LET bad == { i \in 1..Len(hex) : ~isValidHexChar(hex[i]) } IN
  IF Len(hex) % 2 # 0 THEN [err |-> "Invalid hex string: odd length", bytes |-> << >>]
  ELSE IF bad # {} THEN
    [err |-> "Invalid hex character " \o ToString(hex[CHOOSE i \in bad : \A j \in bad : i <= j]),
     bytes |-> << >>]
  ELSE IF Len(hex) # expectedLen * 2 THEN
    [err |-> "Invalid hex string length", bytes |-> << >>]
  ELSE
    [err |-> "",
     bytes |-> [i \in 1..expectedLen |->
                  ((hexCharToByte(hex[2 * i - 1]) * 16) % 256)
                  + hexCharToByte(hex[2 * i])]]

\* hexToBytes: [err, bytes]; bytes is written only when err = ""
hexToBytes(hex, expectedLen, impl) ==
  LET v == validateHexString(hex) IN
  IF v = "odd" THEN
    [err |-> IF impl = "Nitro" THEN "hex invalid"
             ELSE "Invalid hex string: odd length", bytes |-> << >>]
  ELSE IF v = "nonhex" THEN
    [err |-> IF impl = "Nitro" THEN "hex invalid"
             ELSE "Invalid hex string: contains non-hex characters",
     bytes |-> << >>]
  ELSE IF Len(hex) # expectedLen * 2 THEN
    [err |-> IF impl = "Nitro" THEN "Uint8Array expected"
             ELSE "Invalid hex string length", bytes |-> << >>]
  ELSE
    [err |-> "",
     bytes |-> [i \in 1..expectedLen |->
                  ((hexCharToByte(hex[2 * i - 1]) * 16) % 256)
                  + hexCharToByte(hex[2 * i])]]

\* ------------------------------------------------------------------------
\* SHA-512 (hmac_sha512.c).  A uint64_t is the sequence of
\* its 8 bytes, most significant first; the operators of C on uint64_t are
\* defined on that form
\* ------------------------------------------------------------------------
SHA512_BLOCK_SIZE == 128
SHA512_DIGEST_SIZE == 64

RECURSIVE XorBits(_, _, _)
XorBits(a, b, n) ==
  IF n = 0 THEN 0 ELSE ((a + b) % 2) + 2 * XorBits(a \div 2, b \div 2, n - 1)

RECURSIVE AndBits(_, _, _)
AndBits(a, b, n) ==
  IF n = 0 THEN 0 ELSE ((a % 2) * (b % 2)) + 2 * AndBits(a \div 2, b \div 2, n - 1)

\* ^ and & of two bytes, tabulated
Xor8 == [a \in 0..255 |-> [b \in 0..255 |-> XorBits(a, b, 8)]]
And8 == [a \in 0..255 |-> [b \in 0..255 |-> AndBits(a, b, 8)]]

Pow2 == << 1, 2, 4, 8, 16, 32, 64, 128, 256 >>

XOR64(x, y) == [i \in 1..8 |-> Xor8[x[i]][y[i]]]
AND64(x, y) == [i \in 1..8 |-> And8[x[i]][y[i]]]
NOT64(x) == [i \in 1..8 |-> 255 - x[i]]

\* x + y modulo 2^64: bytes added from the least significant, with carry
ADD64(x, y) ==
  LET s8 == x[8] + y[8]
      s7 == x[7] + y[7] + s8 \div 256
      s6 == x[6] + y[6] + s7 \div 256
      s5 == x[5] + y[5] + s6 \div 256
      s4 == x[4] + y[4] + s5 \div 256
      s3 == x[3] + y[3] + s4 \div 256
      s2 == x[2] + y[2] + s3 \div 256
      s1 == x[1] + y[1] + s2 \div 256
  IN << s1 % 256, s2 % 256, s3 % 256, s4 % 256, s5 % 256, s6 % 256, s7 % 256, s8 % 256 >>

\* x >> n
SHR64(x, n) ==
  LET q == n \div 8
      p == Pow2[(n % 8) + 1]
  IN [i \in 1..8 |->
        (IF i - q - 1 >= 1 THEN (x[i - q - 1] % p) * (256 \div p) ELSE 0)
        + (IF i - q >= 1 THEN x[i - q] \div p ELSE 0)]

\* (x >> n) | (x << (64 - n))
ROTR64(x, n) ==
  LET q == n \div 8
      p == Pow2[(n % 8) + 1]
  IN [i \in 1..8 |->
        (x[((i - q - 2) % 8) + 1] % p) * (256 \div p) + (x[((i - q - 1) % 8) + 1] \div p)]

CH(x, y, z) == XOR64(AND64(x, y), AND64(NOT64(x), z))
MAJ(x, y, z) == XOR64(XOR64(AND64(x, y), AND64(x, z)), AND64(y, z))
SIGMA0(x) == XOR64(XOR64(ROTR64(x, 28), ROTR64(x, 34)), ROTR64(x, 39))
SIGMA1(x) == XOR64(XOR64(ROTR64(x, 14), ROTR64(x, 18)), ROTR64(x, 41))
sigma0(x) == XOR64(XOR64(ROTR64(x, 1), ROTR64(x, 8)), SHR64(x, 7))
sigma1(x) == XOR64(XOR64(ROTR64(x, 19), ROTR64(x, 61)), SHR64(x, 6))

\* SHA-512 constants
K ==
  << << 66, 138, 47, 152, 215, 40, 174, 34 >>,
     << 113, 55, 68, 145, 35, 239, 101, 205 >>,
     << 181, 192, 251, 207, 236, 77, 59, 47 >>,
     << 233, 181, 219, 165, 129, 137, 219, 188 >>,
     << 57, 86, 194, 91, 243, 72, 181, 56 >>,
     << 89, 241, 17, 241, 182, 5, 208, 25 >>,
     << 146, 63, 130, 164, 175, 25, 79, 155 >>,
     << 171, 28, 94, 213, 218, 109, 129, 24 >>,
     << 216, 7, 170, 152, 163, 3, 2, 66 >>,
     << 18, 131, 91, 1, 69, 112, 111, 190 >>,
     << 36, 49, 133, 190, 78, 228, 178, 140 >>,
     << 85, 12, 125, 195, 213, 255, 180, 226 >>,
     << 114, 190, 93, 116, 242, 123, 137, 111 >>,
     << 128, 222, 177, 254, 59, 22, 150, 177 >>,
     << 155, 220, 6, 167, 37, 199, 18, 53 >>,
     << 193, 155, 241, 116, 207, 105, 38, 148 >>,
     << 228, 155, 105, 193, 158, 241, 74, 210 >>,
     << 239, 190, 71, 134, 56, 79, 37, 227 >>,
     << 15, 193, 157, 198, 139, 140, 213, 181 >>,
     << 36, 12, 161, 204, 119, 172, 156, 101 >>,
     << 45, 233, 44, 111, 89, 43, 2, 117 >>,
     << 74, 116, 132, 170, 110, 166, 228, 131 >>,
     << 92, 176, 169, 220, 189, 65, 251, 212 >>,
     << 118, 249, 136, 218, 131, 17, 83, 181 >>,
     << 152, 62, 81, 82, 238, 102, 223, 171 >>,
     << 168, 49, 198, 109, 45, 180, 50, 16 >>,
     << 176, 3, 39, 200, 152, 251, 33, 63 >>,
     << 191, 89, 127, 199, 190, 239, 14, 228 >>,
     << 198, 224, 11, 243, 61, 168, 143, 194 >>,
     << 213, 167, 145, 71, 147, 10, 167, 37 >>,
     << 6, 202, 99, 81, 224, 3, 130, 111 >>,
     << 20, 41, 41, 103, 10, 14, 110, 112 >>,
     << 39, 183, 10, 133, 70, 210, 47, 252 >>,
     << 46, 27, 33, 56, 92, 38, 201, 38 >>,
     << 77, 44, 109, 252, 90, 196, 42, 237 >>,
     << 83, 56, 13, 19, 157, 149, 179, 223 >>,
     << 101, 10, 115, 84, 139, 175, 99, 222 >>,
     << 118, 106, 10, 187, 60, 119, 178, 168 >>,
     << 129, 194, 201, 46, 71, 237, 174, 230 >>,
     << 146, 114, 44, 133, 20, 130, 53, 59 >>,
     << 162, 191, 232, 161, 76, 241, 3, 100 >>,
     << 168, 26, 102, 75, 188, 66, 48, 1 >>,
     << 194, 75, 139, 112, 208, 248, 151, 145 >>,
     << 199, 108, 81, 163, 6, 84, 190, 48 >>,
     << 209, 146, 232, 25, 214, 239, 82, 24 >>,
     << 214, 153, 6, 36, 85, 101, 169, 16 >>,
     << 244, 14, 53, 133, 87, 113, 32, 42 >>,
     << 16, 106, 160, 112, 50, 187, 209, 184 >>,
     << 25, 164, 193, 22, 184, 210, 208, 200 >>,
     << 30, 55, 108, 8, 81, 65, 171, 83 >>,
     << 39, 72, 119, 76, 223, 142, 235, 153 >>,
     << 52, 176, 188, 181, 225, 155, 72, 168 >>,
     << 57, 28, 12, 179, 197, 201, 90, 99 >>,
     << 78, 216, 170, 74, 227, 65, 138, 203 >>,
     << 91, 156, 202, 79, 119, 99, 227, 115 >>,
     << 104, 46, 111, 243, 214, 178, 184, 163 >>,
     << 116, 143, 130, 238, 93, 239, 178, 252 >>,
     << 120, 165, 99, 111, 67, 23, 47, 96 >>,
     << 132, 200, 120, 20, 161, 240, 171, 114 >>,
     << 140, 199, 2, 8, 26, 100, 57, 236 >>,
     << 144, 190, 255, 250, 35, 99, 30, 40 >>,
     << 164, 80, 108, 235, 222, 130, 189, 233 >>,
     << 190, 249, 163, 247, 178, 198, 121, 21 >>,
     << 198, 113, 120, 242, 227, 114, 83, 43 >>,
     << 202, 39, 62, 206, 234, 38, 97, 156 >>,
     << 209, 134, 184, 199, 33, 192, 194, 7 >>,
     << 234, 218, 125, 214, 205, 224, 235, 30 >>,
     << 245, 125, 79, 127, 238, 110, 209, 120 >>,
     << 6, 240, 103, 170, 114, 23, 111, 186 >>,
     << 10, 99, 125, 197, 162, 200, 152, 166 >>,
     << 17, 63, 152, 4, 190, 249, 13, 174 >>,
     << 27, 113, 11, 53, 19, 28, 71, 27 >>,
     << 40, 219, 119, 245, 35, 4, 125, 132 >>,
     << 50, 202, 171, 123, 64, 199, 36, 147 >>,
     << 60, 158, 190, 10, 21, 201, 190, 188 >>,
     << 67, 29, 103, 196, 156, 16, 13, 76 >>,
     << 76, 197, 212, 190, 203, 62, 66, 182 >>,
     << 89, 127, 41, 156, 252, 101, 126, 42 >>,
     << 95, 203, 111, 171, 58, 214, 250, 236 >>,
     << 108, 68, 25, 140, 74, 71, 88, 23 >> >>

\* one step of the schedule loop: W[i] from the words before it (W[i] is
\* the element i + 1)
sha512_schedule_step(W, i) ==
  Append(W, ADD64(ADD64(ADD64(sigma1(W[i - 2 + 1]), W[i - 7 + 1]),
                        sigma0(W[i - 15 + 1])), W[i - 16 + 1]))

\* for (i = from; i < to; i++): the steps from, ..., to - 1 in order, the
\* range being halved so that the evaluation does not nest 64 deep
RECURSIVE sha512_schedule(_, _, _)
sha512_schedule(W, from, to) ==
  IF from >= to THEN W
  ELSE IF from + 1 = to THEN sha512_schedule_step(W, from)
  ELSE LET mid == (from + to) \div 2
       IN CHOOSE r \in { sha512_schedule(half, mid, to) :
                           half \in { sha512_schedule(W, from, mid) } } : TRUE

\* the assignments that end a round of the main loop, over
\* v = <<a, b, c, d, e, f, g, h>>
sha512_round_assign(v, t1, t2) ==
  << ADD64(t1, t2), v[1], v[2], v[3], ADD64(v[4], t1), v[5], v[6], v[7] >>

\* one round of the main loop: t1, t2, then the assignments
sha512_round(v, W, i) ==
  sha512_round_assign(v,
    ADD64(ADD64(ADD64(ADD64(v[8], SIGMA1(v[5])), CH(v[5], v[6], v[7])), K[i + 1]), W[i + 1]),
    ADD64(SIGMA0(v[1]), MAJ(v[1], v[2], v[3])))

\* for (i = from; i < to; i++): the rounds from, ..., to - 1 in order
RECURSIVE sha512_rounds(_, _, _, _)
sha512_rounds(v, W, from, to) ==
  IF from >= to THEN v
  ELSE IF from + 1 = to THEN sha512_round(v, W, from)
  ELSE LET mid == (from + to) \div 2
       IN CHOOSE r \in { sha512_rounds(half, W, mid, to) :
                           half \in { sha512_rounds(v, W, from, mid) } } : TRUE

\* the end of sha512_transform: ctx->h[i] += the working variable i.  blocks
\* keeps the blocks handed to sha512_transform since sha512_init
sha512_add_state(ctx, v, block) ==
  [ctx EXCEPT !.h = [i \in 1..8 |-> ADD64(ctx.h[i], v[i])],
              !.blocks = Append(@, block)]

\* sha512_transform(ctx, buf): the message schedule of the 128-byte block,
\* the 80 rounds from the hash state, and the addition to the hash state
sha512_transform(ctx, block) ==
  sha512_add_state(ctx,
    sha512_rounds(ctx.h,
      sha512_schedule([i \in 1..16 |-> [j \in 1..8 |-> block[(i - 1) * 8 + j]]], 16, 80),
      0, 80),
    block)

\* the values sha512_init stores to h[0..7]
sha512_init_h ==
  << << 106, 9, 230, 103, 243, 188, 201, 8 >>,
     << 187, 103, 174, 133, 132, 202, 167, 59 >>,
     << 60, 110, 243, 114, 254, 148, 248, 43 >>,
     << 165, 79, 245, 58, 95, 29, 54, 241 >>,
     << 81, 14, 82, 127, 173, 230, 130, 209 >>,
     << 155, 5, 104, 140, 43, 62, 108, 31 >>,
     << 31, 131, 217, 171, 251, 65, 189, 107 >>,
     << 91, 224, 205, 25, 19, 126, 33, 121 >> >>

\* sha512_ctx ctx; as declared on the stack: nothing is initialised.  top is
\* the highest index of buf stored to since sha512_init, -1 when none
UninitCtx(junk) ==
  [h |-> Fill(8, Fill(8, junk)), length |-> junk, curlen |-> junk,
   buf |-> Fill(SHA512_BLOCK_SIZE, junk), blocks |-> << >>, top |-> -1]

\* sha512_init: curlen, length and h are set, buf is left as it is
sha512_init(ctx) ==
  [ctx EXCEPT !.curlen = 0, !.length = 0, !.h = sha512_init_h,
              !.blocks = << >>, !.top = -1]

Max(a, b) == IF a > b THEN a ELSE b

\* memcpy(ctx->buf + ctx->curlen, data, n); ctx->curlen += n, the n bytes
\* being the first n of data.  A store past buf[127] shows in top
sha512_memcpy(ctx, data, n) ==
  [ctx EXCEPT !.buf = [i \in 1..SHA512_BLOCK_SIZE |->
                         IF i > ctx.curlen /\ i <= ctx.curlen + n
                         THEN data[i - ctx.curlen] ELSE @[i]],
              !.top = IF n > 0 THEN Max(@, ctx.curlen + n - 1) ELSE @,
              !.curlen = @ + n]

\* sha512_update with the blocks taken straight from data even when bytes
\* are waiting in buf
RECURSIVE sha512_update_directAlways(_, _)
sha512_update_directAlways(ctx, data) ==
  IF Len(data) = 0 THEN ctx
  ELSE IF Len(data) >= SHA512_BLOCK_SIZE
  THEN LET c1 == sha512_transform(ctx, SubSeq(data, 1, SHA512_BLOCK_SIZE))
       IN sha512_update_directAlways(
            [c1 EXCEPT !.length = @ + SHA512_BLOCK_SIZE * 8],
            SubSeq(data, SHA512_BLOCK_SIZE + 1, Len(data)))
  ELSE LET n0 == SHA512_BLOCK_SIZE - ctx.curlen
           n == IF n0 > Len(data) THEN Len(data) ELSE n0
           c1 == sha512_memcpy(ctx, data, n)
           c2 == IF c1.curlen = SHA512_BLOCK_SIZE
                 THEN [sha512_transform(c1, c1.buf) EXCEPT
                         !.length = @ + SHA512_BLOCK_SIZE * 8, !.curlen = 0]
                 ELSE c1
       IN sha512_update_directAlways(c2, SubSeq(data, n + 1, Len(data)))

\* sha512_update with length left alone after a block taken from buf
RECURSIVE sha512_update_lengthDirectOnly(_, _)
sha512_update_lengthDirectOnly(ctx, data) ==
  IF Len(data) = 0 THEN ctx
  ELSE IF ctx.curlen = 0 /\ Len(data) >= SHA512_BLOCK_SIZE
  THEN LET c1 == sha512_transform(ctx, SubSeq(data, 1, SHA512_BLOCK_SIZE))
       IN sha512_update_lengthDirectOnly(
            [c1 EXCEPT !.length = @ + SHA512_BLOCK_SIZE * 8],
            SubSeq(data, SHA512_BLOCK_SIZE + 1, Len(data)))
  ELSE LET n0 == SHA512_BLOCK_SIZE - ctx.curlen
           n == IF n0 > Len(data) THEN Len(data) ELSE n0
           c1 == sha512_memcpy(ctx, data, n)
           c2 == IF c1.curlen = SHA512_BLOCK_SIZE
                 THEN [sha512_transform(c1, c1.buf) EXCEPT !.curlen = 0]
                 ELSE c1
       IN sha512_update_lengthDirectOnly(c2, SubSeq(data, n + 1, Len(data)))

\* sha512_update(ctx, data, len): the while loop, one iteration per step;
\* data is the bytes not yet consumed and len its length
RECURSIVE sha512_update(_, _)
sha512_update(ctx, data) ==
  IF Len(data) = 0 THEN ctx
  ELSE IF ctx.curlen = 0 /\ Len(data) >= SHA512_BLOCK_SIZE
  THEN LET c1 == sha512_transform(ctx, SubSeq(data, 1, SHA512_BLOCK_SIZE))
       IN sha512_update([c1 EXCEPT !.length = @ + SHA512_BLOCK_SIZE * 8],
                        SubSeq(data, SHA512_BLOCK_SIZE + 1, Len(data)))
  ELSE LET n0 == SHA512_BLOCK_SIZE - ctx.curlen
           n == IF n0 > Len(data) THEN Len(data) ELSE n0
           c1 == sha512_memcpy(ctx, data, n)
           c2 == IF c1.curlen = SHA512_BLOCK_SIZE
                 THEN [sha512_transform(c1, c1.buf) EXCEPT
                         !.length = @ + SHA512_BLOCK_SIZE * 8, !.curlen = 0]
                 ELSE c1
       IN sha512_update(c2, SubSeq(data, n + 1, Len(data)))

\* ctx->buf[ctx->curlen++] = v.  A store past buf[127] shows in top
sha512_put(ctx, v) ==
  [ctx EXCEPT !.buf = [i \in 1..SHA512_BLOCK_SIZE |->
                         IF i = ctx.curlen + 1 THEN v ELSE @[i]],
              !.top = Max(@, ctx.curlen),
              !.curlen = @ + 1]

\* while (ctx->curlen < upto) ctx->buf[ctx->curlen++] = 0;
sha512_zero_fill(ctx, upto) ==
  IF ctx.curlen < upto
  THEN [ctx EXCEPT !.buf = [i \in 1..SHA512_BLOCK_SIZE |->
                              IF i > ctx.curlen /\ i <= upto THEN 0 ELSE @[i]],
                   !.top = Max(@, upto - 1),
                   !.curlen = upto]
  ELSE ctx

\* (x >> (8 * k)) & 0xff
RECURSIVE ShiftedByte(_, _)
ShiftedByte(x, k) == IF k = 0 THEN x % 256 ELSE ShiftedByte(x \div 256, k - 1)

\* the two for loops of sha512_final that store the length field: zeros to
\* buf[112..119], the bytes of length_bits to buf[120..127]
sha512_put_length(ctx, length_bits) ==
  [ctx EXCEPT !.buf = [j \in 1..SHA512_BLOCK_SIZE |->
                         IF j >= 113 /\ j <= 120 THEN 0
                         ELSE IF j >= 121 THEN ShiftedByte(length_bits, 7 - (j - 121))
                         ELSE @[j]],
              !.top = Max(@, 127)]

\* for (i = 0; i < 8; i++) hash[i * 8 + 0..7] = the bytes of ctx->h[i]
sha512_output(h) == [j \in 1..SHA512_DIGEST_SIZE |-> h[((j - 1) \div 8) + 1][((j - 1) % 8) + 1]]

\* sha512_transform(ctx, ctx->buf)
sha512_transform_buf(ctx) == sha512_transform(ctx, ctx.buf)

\* the first padding step with the extra block taken from curlen = 112 on
sha512_final_pad_from112(ctx) ==
  IF ctx.curlen >= 112
  THEN [sha512_transform_buf(sha512_zero_fill(ctx, 128)) EXCEPT !.curlen = 0]
  ELSE ctx

\* sha512_final after the 0x80: if (ctx->curlen > 112) the block is filled
\* with zeros and processed
sha512_final_pad(ctx) ==
  IF ctx.curlen > 112
  THEN [sha512_transform_buf(sha512_zero_fill(ctx, 128)) EXCEPT !.curlen = 0]
  ELSE ctx

\* the end of sha512_final: the context it leaves and the 64 bytes stored to
\* hash
sha512_final_output(ctx) == [ctx |-> ctx, hash |-> sha512_output(ctx.h)]

\* sha512_final from the zero padding on: zeros up to 112, the length
\* field, the last block, the output
sha512_final_length(ctx, length_bits) ==
  sha512_final_output(
    sha512_transform_buf(sha512_put_length(sha512_zero_fill(ctx, 112), length_bits)))

\* sha512_final(ctx, hash): length_bits is taken first, then 0x80 is stored
\* and the padding done
sha512_final(ctx) ==
  sha512_final_length(sha512_final_pad(sha512_put(ctx, 128)),
                      ctx.length + ctx.curlen * 8)

\* ------------------------------------------------------------------------
\* Arithmetic of the libraries: sequences, and values bound before use
\* ------------------------------------------------------------------------
Min(a, b) == IF a < b THEN a ELSE b

Reverse(s) == [i \in 1..Len(s) |-> s[Len(s) + 1 - i]]

\* s[i], zero beyond the end of s
byte_at(s, i) == IF i <= Len(s) THEN s[i] ELSE 0

\* F(v), with v evaluated once and before F is applied
With(v, F(_)) == CHOOSE r \in { F(x) : x \in { v } } : TRUE

\* F(v), computed to a value at once, whatever expression the call stands in
Strict(v, F(_)) == CHOOSE r \in DOMAIN BagOfAll(F, SetToBag({ v })) : TRUE

\* table[key] where the table holds the key, else the value computed
Known(table, key, value) == IF key \in DOMAIN table THEN table[key] ELSE value

\* ------------------------------------------------------------------------
\* Multi-precision naturals: limbs of 12 bits, least significant first
\* ------------------------------------------------------------------------
LIMB == 2^12

\* the limbs of a number below 2^256, and room for a carry
NLIMBS == (256 \div 12) + 1

\* limb k of x, zero beyond its length
mp_limb(x, k) == IF k <= Len(x) THEN x[k] ELSE 0

\* the limbs of a number given by its bytes, least significant byte first
mp_from_bytes(le) ==
  [j \in 1..NLIMBS |->
     IF j % 2 = 1
     THEN mp_limb(le, 3 * (j \div 2) + 1) + (mp_limb(le, 3 * (j \div 2) + 2) % 16) * 256
     ELSE mp_limb(le, 3 * (j \div 2) - 1) \div 16 + mp_limb(le, 3 * (j \div 2)) * 16]

\* the n low bytes of a number, least significant byte first
mp_to_bytes(x, n) ==
  [m \in 1..n |->
     IF m % 3 = 1 THEN mp_limb(x, 2 * (m \div 3) + 1) % 256
     ELSE IF m % 3 = 2
     THEN mp_limb(x, 2 * (m \div 3) + 1) \div 256 + (mp_limb(x, 2 * (m \div 3) + 2) % 16) * 16
     ELSE mp_limb(x, 2 * (m \div 3)) \div 16]

\* a + b limb by limb, carries not yet propagated
mp_add(a, b) == [k \in 1..Max(Len(a), Len(b)) |-> mp_limb(a, k) + mp_limb(b, k)]

\* a - b limb by limb, for a whose limbs are not below those of b
mp_sub(a, b) == [k \in 1..Max(Len(a), Len(b)) |-> mp_limb(a, k) - mp_limb(b, k)]

\* sum of a[i] * b[k + 1 - i] for i = from..to
RECURSIVE mp_dot(_, _, _, _, _)
mp_dot(a, b, k, from, to) ==
  IF from > to THEN 0
  ELSE IF from = to THEN a[from] * b[k + 1 - from]
  ELSE mp_dot(a, b, k, from, (from + to) \div 2)
       + mp_dot(a, b, k, (from + to) \div 2 + 1, to)

\* a * b limb by limb, carries not yet propagated
mp_mul(a, b) ==
  [k \in 1..(Len(a) + Len(b)) |->
     mp_dot(a, b, k, Max(1, k + 1 - Len(b)), Min(k, Len(a)))]

\* every limb keeps its low 12 bits and takes what the limb below it carries
mp_carry_pass(x) ==
  [k \in 1..(Len(x) + (IF x[Len(x)] >= LIMB THEN 1 ELSE 0)) |->
     (mp_limb(x, k) % LIMB) + (IF k > 1 THEN x[k - 1] \div LIMB ELSE 0)]

\* carry propagation: passes until no limb is above 12 bits
RECURSIVE mp_carry(_)
mp_carry(x) ==
  IF \A k \in 1..Len(x) : x[k] < LIMB THEN x ELSE mp_carry(mp_carry_pass(x))

\* x >> bits
mp_shr(x, bits) ==
  [j \in 1..Max(Len(x) - bits \div 12, 1) |->
     mp_limb(x, bits \div 12 + j) \div 2^(bits % 12)
     + (mp_limb(x, bits \div 12 + j + 1) % 2^(bits % 12)) * 2^(12 - (bits % 12))]

\* x mod 2^bits, in NLIMBS limbs
mp_low(x, bits) ==
  [j \in 1..NLIMBS |->
     IF j <= bits \div 12 THEN mp_limb(x, j)
     ELSE IF j = bits \div 12 + 1 THEN mp_limb(x, j) % 2^(bits % 12)
     ELSE 0]

mp_is_zero(x) == \A k \in 1..Len(x) : x[k] = 0

\* bit i of x
mp_bit(x, i) == (mp_limb(x, i \div 12 + 1) \div 2^(i % 12)) % 2

\* ------------------------------------------------------------------------
\* Arithmetic modulo a prime p = 2^bits - c
\* ------------------------------------------------------------------------
fe_zero == [j \in 1..NLIMBS |-> 0]
fe_one == [j \in 1..NLIMBS |-> IF j = 1 THEN 1 ELSE 0]

\* the field of p = 2^bits - c: p is (2^bits - 1) - c + 1
fe_field(bits, c) ==
  [bits |-> bits, c |-> c,
   p |-> mp_add(mp_sub(mp_low([j \in 1..NLIMBS |-> LIMB - 1], bits), c), << 1 >>)]

\* lo below 2^bits brought below p: lo - p = lo + c - 2^bits when lo >= p
fe_canon(lo, t, f) == IF mp_is_zero(mp_shr(t, f.bits)) THEN lo ELSE mp_low(t, f.bits)

\* x mod p: 2^bits = c (mod p), so the part above 2^bits is folded in
RECURSIVE fe_reduce(_, _)
fe_fold(lo, hi, f) ==
  IF mp_is_zero(hi) THEN fe_canon(lo, mp_carry(mp_add(lo, f.c)), f)
  ELSE fe_reduce(mp_carry(mp_add(lo, mp_mul(hi, f.c))), f)

fe_reduce(x, f) == fe_fold(mp_low(x, f.bits), mp_shr(x, f.bits), f)

\* 2p with no limb below LIMB - 1: b can be taken from it limb by limb
fe_2p(f) ==
  [k \in 1..NLIMBS |->
     2 * f.p[k] + (IF k < NLIMBS THEN LIMB ELSE 0) - (IF k > 1 THEN 1 ELSE 0)]

fe_add(a, b, f) == fe_reduce(mp_carry(mp_add(a, b)), f)
fe_sub(a, b, f) == fe_reduce(mp_carry(mp_add(a, mp_sub(fe_2p(f), b))), f)
fe_mul_int(a, n, f) == fe_reduce(mp_carry(mp_mul(a, << n >>)), f)
fe_mul(a, b, f) == fe_reduce(mp_carry(mp_mul(a, b)), f)
fe_sqr(a, f) == fe_mul(a, a, f)

\* a^e: the bits of e from bit hi - 1 down to bit lo, square and multiply
RECURSIVE fe_pow_bits(_, _, _, _, _, _)
fe_pow_bits(r, a, e, lo, hi, f) ==
  IF hi <= lo THEN r
  ELSE IF lo + 1 = hi
  THEN IF mp_bit(e, lo) = 1 THEN fe_mul(fe_sqr(r, f), a, f) ELSE fe_sqr(r, f)
  ELSE With(fe_pow_bits(r, a, e, (lo + hi) \div 2, hi, f),
            LAMBDA half : fe_pow_bits(half, a, e, lo, (lo + hi) \div 2, f))

fe_pow(a, e, f) == fe_pow_bits(fe_one, a, e, 0, f.bits, f)

\* 1 / a = a^(p - 2)
fe_inv(a, f) == fe_pow(a, mp_carry(mp_sub(f.p, << 2 >>)), f)

\* ------------------------------------------------------------------------
\* secp256k1: y^2 = x^3 + 7 over p = 2^256 - 2^32 - 977
\* ------------------------------------------------------------------------
secp256k1_fe == fe_field(256, << 977, 0, 256 >>)

\* the generator G
secp256k1_G ==
  [x |-> mp_from_bytes(Reverse(
     << 121, 190, 102, 126, 249, 220, 187, 172,
        85, 160, 98, 149, 206, 135, 11, 7,
        2, 155, 252, 219, 45, 206, 40, 217,
        89, 242, 129, 91, 22, 248, 23, 152 >>)),
   y |-> mp_from_bytes(Reverse(
     << 72, 58, 218, 119, 38, 163, 196, 101,
        93, 164, 251, 252, 14, 17, 8, 168,
        253, 23, 180, 72, 166, 133, 84, 25,
        156, 71, 208, 143, 251, 16, 212, 184 >>))]

gej_infinity == [X |-> fe_zero, Y |-> fe_one, Z |-> fe_zero]

\* secp256k1_gej_double: 2P in Jacobian coordinates (a = 0)
gej_double(P, f) ==
  IF P.Z = fe_zero THEN P
  ELSE
    With([A |-> fe_sqr(P.X, f), B |-> fe_sqr(P.Y, f),
          Z |-> fe_mul_int(fe_mul(P.Y, P.Z, f), 2, f)], LAMBDA s :
    With([C |-> fe_sqr(s.B, f), E |-> fe_mul_int(s.A, 3, f),
          S |-> fe_sub(fe_sqr(fe_add(P.X, s.B, f), f), s.A, f)], LAMBDA t :
    With(fe_mul_int(fe_sub(t.S, t.C, f), 2, f), LAMBDA D :
    With(fe_sub(fe_sqr(t.E, f), fe_mul_int(D, 2, f), f), LAMBDA X3 :
      [X |-> X3,
       Y |-> fe_sub(fe_mul(t.E, fe_sub(D, X3, f), f), fe_mul_int(t.C, 8, f), f),
       Z |-> s.Z]))))

\* secp256k1_gej_add_ge: P + Q, P Jacobian and Q affine
gej_add_ge(P, Q, f) ==
  IF P.Z = fe_zero THEN [X |-> Q.x, Y |-> Q.y, Z |-> fe_one]
  ELSE
    With(fe_sqr(P.Z, f), LAMBDA Z1Z1 :
    With([H |-> fe_sub(fe_mul(Q.x, Z1Z1, f), P.X, f),
          r |-> fe_sub(fe_mul(Q.y, fe_mul(P.Z, Z1Z1, f), f), P.Y, f)], LAMBDA s :
      IF s.H = fe_zero
      THEN IF s.r = fe_zero THEN gej_double(P, f) ELSE gej_infinity
      ELSE
        With(fe_sqr(s.H, f), LAMBDA HH :
        With([HHH |-> fe_mul(s.H, HH, f), V |-> fe_mul(P.X, HH, f)], LAMBDA t :
        With(fe_sub(fe_sub(fe_sqr(s.r, f), t.HHH, f), fe_mul_int(t.V, 2, f), f), LAMBDA X3 :
          [X |-> X3,
           Y |-> fe_sub(fe_mul(s.r, fe_sub(t.V, X3, f), f), fe_mul(P.Y, t.HHH, f), f),
           Z |-> fe_mul(P.Z, s.H, f)])))))

\* the bits hi - 1 .. lo of the scalar k, most significant first: R = 2R, then
\* R = R + Q where the bit is set
RECURSIVE ecmult_bits(_, _, _, _, _, _)
ecmult_bits(R, Q, k, lo, hi, f) ==
  IF hi <= lo THEN R
  ELSE IF lo + 1 = hi
  THEN With(gej_double(R, f), LAMBDA D : IF mp_bit(k, lo) = 1 THEN gej_add_ge(D, Q, f) ELSE D)
  ELSE With(ecmult_bits(R, Q, k, (lo + hi) \div 2, hi, f),
            LAMBDA half : ecmult_bits(half, Q, k, lo, (lo + hi) \div 2, f))

\* secp256k1_ge_set_gej: back to affine coordinates
ge_set_gej(P, f) ==
  With(fe_inv(P.Z, f), LAMBDA zi :
  With(fe_sqr(zi, f), LAMBDA zi2 :
    [x |-> fe_mul(P.X, zi2, f), y |-> fe_mul(P.Y, fe_mul(zi2, zi, f), f)]))

\* a field element as 32 bytes, big-endian, and back
fe_get_b32(a) == Reverse(mp_to_bytes(a, 32))
fe_set_b32(b) == mp_from_bytes(Reverse(b))

\* secp256k1_fe_set_b32_limit: FALSE when the number is not below p
fe_set_b32_limit(b, f) == mp_is_zero(mp_shr(mp_carry(mp_add(fe_set_b32(b), f.c)), f.bits))

\* secp256k1_ecmult_gen: seckey * G, as the 32-byte coordinates
ecmult_gen(seckey) ==
  Strict(seckey, LAMBDA key :
    With(ecmult_bits(gej_infinity, secp256k1_G, fe_set_b32(key), 0, 256, secp256k1_fe), LAMBDA R :
    With(ge_set_gej(R, secp256k1_fe), LAMBDA A :
      [x |-> fe_get_b32(A.x), y |-> fe_get_b32(A.y)])))

\* x^3 + 7
ge_x3_plus_7(x, f) == fe_add(fe_mul(fe_sqr(x, f), x, f), << 7 >>, f)

\* secp256k1_fe_sqrt: a^((p + 1) / 4), a root when a has one (p = 3 mod 4)
fe_sqrt(a, f) == fe_pow(a, mp_shr(mp_carry(mp_add(f.p, << 1 >>)), 2), f)

\* secp256k1_ge_set_xo_var: the point with this x and the parity of y asked for
ge_set_xo_var(xb, odd, f) ==
  With(fe_set_b32(xb), LAMBDA x :
  With(ge_x3_plus_7(x, f), LAMBDA c :
  With(fe_sqrt(c, f), LAMBDA y :
    IF fe_sqr(y, f) # c THEN [ok |-> FALSE, x |-> xb, y |-> xb]
    ELSE [ok |-> TRUE, x |-> xb,
          y |-> fe_get_b32(IF (y[1] % 2 = 1) = odd THEN y ELSE fe_sub(fe_zero, y, f))])))

\* secp256k1_ge_is_valid_var: y^2 = x^3 + 7
ge_is_valid_var(xb, yb, f) ==
  fe_sqr(fe_set_b32(yb), f) = ge_x3_plus_7(fe_set_b32(xb), f)

ZeroPubkey == [x |-> Fill(32, 0), y |-> Fill(32, 0)]

\* secp256k1_eckey_pubkey_parse
eckey_pubkey_parse(pub, size) ==
  Strict(pub, LAMBDA key :
    IF size = 33 /\ byte_at(key, 1) \in {2, 3} THEN
      IF ~fe_set_b32_limit(SubSeq(key, 2, 33), secp256k1_fe) THEN [ok |-> FALSE, pubkey |-> ZeroPubkey]
      ELSE With(ge_set_xo_var(SubSeq(key, 2, 33), byte_at(key, 1) = 3, secp256k1_fe), LAMBDA e :
             IF e.ok THEN [ok |-> TRUE, pubkey |-> [x |-> e.x, y |-> e.y]]
             ELSE [ok |-> FALSE, pubkey |-> ZeroPubkey])
    ELSE IF size = 65 /\ byte_at(key, 1) \in {4, 6, 7} THEN
      IF \/ ~fe_set_b32_limit(SubSeq(key, 2, 33), secp256k1_fe)
         \/ ~fe_set_b32_limit(SubSeq(key, 34, 65), secp256k1_fe)
      THEN [ok |-> FALSE, pubkey |-> ZeroPubkey]
      ELSE IF byte_at(key, 1) \in {6, 7} /\ (byte_at(key, 65) % 2 = 1) # (byte_at(key, 1) = 7)
      THEN [ok |-> FALSE, pubkey |-> ZeroPubkey]
      ELSE IF ge_is_valid_var(SubSeq(key, 2, 33), SubSeq(key, 34, 65), secp256k1_fe)
      THEN [ok |-> TRUE, pubkey |-> [x |-> SubSeq(key, 2, 33), y |-> SubSeq(key, 34, 65)]]
      ELSE [ok |-> FALSE, pubkey |-> ZeroPubkey]
    ELSE [ok |-> FALSE, pubkey |-> ZeroPubkey])

\* k * G as ecmult_gen computes it, for the scalars the calls below are made
\* with and for the 32-byte literals of the repository's tests and examples
KnownPoints ==
  (   << 0, 0, 0, 0, 0, 0, 0, 0, 0, 0, 0, 0, 0, 0, 0, 0,
         0, 0, 0, 0, 0, 0, 0, 0, 0, 0, 0, 0, 0, 0, 0, 1 >>
   :> [x |-> << 121, 190, 102, 126, 249, 220, 187, 172, 85, 160, 98, 149, 206, 135, 11, 7,
                2, 155, 252, 219, 45, 206, 40, 217, 89, 242, 129, 91, 22, 248, 23, 152 >>,
       y |-> << 72, 58, 218, 119, 38, 163, 196, 101, 93, 164, 251, 252, 14, 17, 8, 168,
                253, 23, 180, 72, 166, 133, 84, 25, 156, 71, 208, 143, 251, 16, 212, 184 >>] )
  @@
  (   << 0, 0, 0, 0, 0, 0, 0, 0, 0, 0, 0, 0, 0, 0, 0, 0,
         0, 0, 0, 0, 0, 0, 0, 0, 0, 0, 0, 0, 0, 0, 0, 2 >>
   :> [x |-> << 198, 4, 127, 148, 65, 237, 125, 109, 48, 69, 64, 110, 149, 192, 124, 216,
                92, 119, 142, 75, 140, 239, 60, 167, 171, 172, 9, 185, 92, 112, 158, 229 >>,
       y |-> << 26, 225, 104, 254, 166, 61, 195, 57, 163, 197, 132, 25, 70, 108, 234, 238,
                247, 246, 50, 101, 50, 102, 208, 225, 35, 100, 49, 169, 80, 207, 229, 42 >>] )
  @@
  (   << 0, 0, 0, 0, 0, 0, 0, 0, 0, 0, 0, 0, 0, 0, 0, 0,
         0, 0, 0, 0, 0, 0, 0, 0, 0, 0, 0, 0, 0, 0, 0, 16 >>
   :> [x |-> << 230, 15, 206, 147, 181, 158, 158, 197, 48, 17, 170, 188, 33, 194, 62, 151,
                178, 163, 19, 105, 184, 122, 90, 233, 196, 78, 232, 158, 42, 109, 236, 10 >>,
       y |-> << 247, 227, 80, 115, 153, 229, 149, 146, 157, 185, 159, 52, 245, 121, 55, 16,
                18, 150, 137, 30, 68, 210, 63, 11, 225, 243, 44, 206, 105, 97, 104, 33 >>] )
  @@
  (   << 0, 0, 0, 0, 0, 0, 0, 0, 0, 0, 0, 0, 0, 0, 0, 0,
         0, 0, 0, 0, 0, 0, 0, 0, 0, 0, 0, 0, 0, 0, 0, 32 >>
   :> [x |-> << 211, 1, 153, 215, 79, 181, 162, 45, 71, 182, 224, 84, 226, 243, 120, 206,
                218, 207, 252, 184, 153, 4, 166, 29, 117, 208, 219, 212, 7, 20, 62, 101 >>,
       y |-> << 149, 3, 141, 157, 10, 227, 213, 195, 179, 214, 222, 201, 233, 131, 128, 101,
                31, 118, 12, 195, 100, 237, 129, 150, 5, 179, 255, 31, 36, 16, 106, 185 >>] )
  @@
  (   << 0, 0, 0, 0, 0, 0, 0, 0, 0, 0, 0, 0, 0, 0, 0, 0,
         0, 0, 0, 0, 0, 0, 0, 0, 0, 0, 0, 0, 0, 0, 1, 0 >>
   :> [x |-> << 130, 130, 38, 50, 18, 198, 9, 217, 234, 42, 110, 62, 23, 45, 226, 56,
                216, 195, 156, 171, 213, 172, 28, 161, 6, 70, 226, 63, 213, 245, 21, 8 >>,
       y |-> << 17, 248, 168, 9, 133, 87, 223, 228, 94, 130, 86, 232, 48, 182, 10, 206,
                98, 214, 19, 172, 47, 123, 23, 190, 211, 27, 110, 175, 246, 226, 108, 175 >>] )
  @@
  (   << 0, 0, 0, 0, 0, 0, 0, 0, 0, 0, 0, 0, 0, 0, 0, 0,
         0, 0, 0, 0, 0, 0, 0, 0, 0, 0, 0, 0, 0, 0, 16, 0 >>
   :> [x |-> << 23, 94, 21, 159, 114, 139, 134, 90, 114, 249, 156, 198, 198, 252, 132, 109,
                224, 185, 56, 51, 253, 34, 34, 237, 115, 252, 229, 181, 81, 229, 183, 57 >>,
       y |-> << 211, 80, 110, 13, 158, 60, 121, 235, 164, 239, 151, 165, 31, 247, 31, 94,
                172, 181, 149, 90, 221, 36, 52, 92, 110, 250, 111, 254, 233, 254, 214, 149 >>] )
  @@
  (   << 0, 47, 221, 31, 118, 65, 121, 58, 176, 100, 187, 122, 168, 72, 247, 98,
         231, 236, 110, 51, 47, 252, 38, 238, 172, 218, 20, 26, 227, 59, 23, 131 >>
   :> [x |-> << 102, 12, 2, 201, 145, 215, 55, 120, 21, 247, 43, 15, 55, 167, 65, 194,
                251, 92, 185, 2, 195, 231, 190, 21, 106, 188, 67, 157, 103, 100, 117, 248 >>,
       y |-> << 218, 125, 92, 27, 182, 137, 44, 7, 29, 123, 121, 58, 58, 66, 246, 188,
                7, 36, 154, 228, 190, 21, 91, 241, 43, 152, 27, 195, 185, 233, 47, 8 >>] )
  @@
  (   << 1, 35, 69, 103, 137, 171, 205, 239, 1, 35, 69, 103, 137, 171, 205, 239,
         1, 35, 69, 103, 137, 171, 205, 239, 1, 35, 69, 103, 137, 171, 205, 239 >>
   :> [x |-> << 70, 70, 174, 80, 71, 49, 107, 66, 48, 208, 8, 108, 138, 206, 198, 135,
                240, 11, 28, 217, 209, 220, 99, 79, 108, 179, 88, 172, 10, 154, 143, 255 >>,
       y |-> << 254, 119, 180, 221, 10, 75, 251, 149, 133, 31, 59, 115, 85, 199, 129, 221,
                96, 248, 65, 143, 200, 166, 93, 20, 144, 122, 255, 71, 201, 3, 165, 89 >>] )
  @@
  (   << 8, 0, 0, 0, 0, 0, 0, 0, 0, 0, 0, 0, 0, 0, 0, 0,
         0, 0, 0, 0, 0, 0, 0, 0, 0, 0, 0, 0, 0, 0, 0, 0 >>
   :> [x |-> << 255, 61, 97, 54, 255, 172, 91, 12, 191, 198, 197, 192, 195, 13, 192, 26,
                126, 163, 213, 108, 32, 189, 49, 3, 177, 120, 227, 211, 174, 24, 0, 104 >>,
       y |-> << 19, 50, 57, 190, 132, 228, 0, 14, 64, 208, 55, 44, 221, 150, 173, 193,
                84, 118, 118, 242, 64, 1, 245, 230, 112, 166, 187, 110, 24, 140, 96, 119 >>] )
  @@
  (   << 22, 75, 122, 123, 252, 248, 25, 226, 227, 149, 251, 231, 59, 86, 224, 163,
         135, 189, 100, 34, 46, 131, 31, 214, 16, 39, 12, 215, 234, 37, 5, 84 >>
   :> [x |-> << 90, 37, 38, 205, 18, 98, 108, 85, 130, 202, 72, 236, 215, 152, 21, 195,
                49, 254, 243, 57, 77, 20, 41, 23, 145, 130, 194, 20, 184, 139, 129, 173 >>,
       y |-> << 31, 145, 79, 11, 43, 42, 203, 110, 65, 138, 252, 213, 133, 152, 40, 87,
                189, 113, 153, 35, 173, 179, 242, 246, 163, 203, 62, 212, 3, 211, 119, 211 >>] )
  @@
  (   << 35, 184, 107, 37, 45, 83, 100, 198, 147, 11, 33, 153, 196, 124, 238, 44,
         80, 35, 225, 60, 181, 100, 80, 244, 106, 3, 41, 29, 30, 80, 60, 236 >>
   :> [x |-> << 234, 154, 103, 65, 244, 205, 4, 23, 36, 192, 32, 53, 101, 198, 218, 248,
                209, 37, 252, 189, 111, 78, 137, 51, 10, 113, 65, 34, 22, 190, 118, 48 >>,
       y |-> << 113, 116, 131, 250, 120, 107, 68, 176, 45, 235, 222, 176, 224, 69, 137, 119,
                22, 55, 123, 162, 85, 8, 61, 154, 218, 57, 70, 48, 66, 69, 184, 165 >>] )
  @@
  (   << 39, 129, 23, 252, 20, 76, 114, 52, 15, 103, 208, 242, 49, 110, 131, 134,
         206, 255, 191, 43, 36, 40, 201, 197, 31, 239, 124, 89, 127, 29, 66, 110 >>
   :> [x |-> << 51, 182, 103, 97, 229, 70, 145, 156, 142, 69, 162, 148, 239, 116, 247, 81,
                209, 165, 53, 95, 53, 122, 133, 161, 207, 220, 11, 163, 118, 18, 22, 44 >>,
       y |-> << 16, 214, 128, 242, 69, 37, 47, 125, 221, 38, 13, 65, 236, 12, 190, 219,
                72, 44, 194, 236, 179, 95, 37, 146, 14, 170, 138, 151, 46, 61, 14, 207 >>] )
  @@
  (   << 41, 13, 236, 217, 84, 139, 98, 168, 214, 3, 69, 169, 136, 56, 111, 200,
         75, 166, 188, 149, 72, 64, 8, 246, 54, 47, 147, 22, 14, 243, 229, 99 >>
   :> [x |-> << 113, 2, 96, 23, 90, 173, 56, 81, 121, 87, 39, 31, 101, 85, 218, 249,
                201, 131, 33, 92, 54, 210, 73, 232, 172, 114, 103, 229, 124, 217, 100, 166 >>,
       y |-> << 56, 67, 59, 3, 182, 151, 22, 124, 62, 50, 50, 18, 227, 113, 155, 212,
                134, 117, 148, 30, 103, 206, 35, 229, 132, 58, 191, 19, 15, 15, 208, 220 >>] )
  @@
  (   << 43, 223, 215, 55, 239, 85, 194, 64, 108, 126, 34, 166, 139, 197, 94, 62,
         188, 106, 63, 70, 135, 32, 154, 141, 113, 26, 40, 42, 73, 173, 5, 82 >>
   :> [x |-> << 222, 160, 179, 129, 64, 197, 122, 106, 242, 243, 231, 182, 221, 102, 80, 131,
                198, 223, 78, 81, 224, 82, 214, 108, 106, 215, 195, 20, 74, 58, 53, 156 >>,
       y |-> << 177, 74, 169, 56, 80, 209, 122, 209, 65, 158, 27, 133, 91, 102, 4, 231,
                88, 218, 27, 147, 237, 65, 134, 62, 244, 97, 213, 142, 72, 11, 33, 74 >>] )
  @@
  (   << 44, 58, 60, 24, 67, 128, 73, 205, 182, 174, 153, 178, 241, 88, 227, 93,
         212, 204, 178, 172, 118, 30, 92, 106, 94, 183, 76, 225, 235, 254, 180, 18 >>
   :> [x |-> << 57, 196, 93, 23, 221, 66, 19, 129, 239, 253, 79, 122, 46, 16, 192, 129,
                62, 192, 7, 198, 241, 63, 198, 93, 70, 160, 153, 41, 238, 174, 53, 223 >>,
       y |-> << 198, 3, 218, 31, 74, 237, 109, 47, 114, 191, 104, 45, 117, 104, 12, 201,
                0, 222, 97, 66, 12, 39, 93, 213, 50, 7, 29, 229, 121, 161, 81, 158 >>] )
  @@
  (   << 52, 243, 75, 128, 173, 61, 63, 191, 93, 178, 96, 223, 85, 124, 91, 81,
         138, 215, 196, 12, 76, 47, 92, 139, 203, 213, 243, 179, 62, 198, 26, 26 >>
   :> [x |-> << 246, 90, 241, 86, 181, 4, 186, 193, 124, 149, 30, 193, 140, 39, 141, 221,
                206, 119, 50, 105, 163, 241, 224, 219, 10, 178, 147, 242, 34, 149, 205, 81 >>,
       y |-> << 84, 117, 48, 109, 222, 238, 133, 175, 223, 95, 201, 154, 227, 161, 111, 223,
                158, 111, 8, 93, 51, 114, 56, 253, 87, 25, 162, 116, 169, 176, 17, 77 >>] )
  @@
  (   << 55, 141, 100, 74, 181, 43, 138, 238, 45, 113, 51, 170, 10, 238, 238, 27,
         50, 168, 221, 214, 194, 136, 154, 247, 176, 184, 34, 112, 13, 145, 47, 182 >>
   :> [x |-> << 84, 93, 2, 173, 140, 198, 131, 142, 158, 147, 63, 12, 47, 110, 120, 208,
                39, 81, 120, 54, 170, 196, 76, 114, 155, 30, 198, 54, 237, 130, 32, 34 >>,
       y |-> << 18, 63, 51, 88, 119, 84, 137, 67, 104, 168, 173, 224, 241, 143, 55, 250,
                60, 246, 43, 117, 190, 219, 61, 2, 201, 205, 253, 139, 74, 224, 211, 162 >>] )
  @@
  (   << 58, 192, 89, 190, 100, 11, 16, 113, 2, 213, 242, 89, 185, 236, 104, 162,
         1, 234, 125, 251, 90, 88, 75, 92, 133, 109, 174, 18, 224, 141, 141, 248 >>
   :> [x |-> << 192, 78, 250, 17, 146, 39, 10, 62, 102, 2, 211, 42, 96, 147, 235, 176,
                142, 168, 35, 39, 36, 179, 242, 61, 4, 31, 109, 87, 249, 66, 115, 123 >>,
       y |-> << 187, 241, 171, 50, 45, 10, 105, 35, 88, 166, 6, 244, 207, 111, 115, 113,
                68, 28, 233, 115, 42, 206, 204, 234, 82, 59, 164, 3, 81, 41, 149, 228 >>] )
  @@
  (   << 61, 64, 23, 195, 232, 67, 137, 90, 146, 183, 10, 167, 77, 27, 126, 188,
         156, 152, 44, 207, 46, 196, 150, 140, 192, 205, 85, 241, 42, 244, 102, 12 >>
   :> [x |-> << 63, 195, 229, 83, 162, 183, 74, 38, 177, 148, 9, 61, 161, 230, 210, 43,
                188, 239, 243, 123, 211, 109, 230, 88, 123, 8, 189, 209, 62, 174, 221, 197 >>,
       y |-> << 153, 109, 38, 169, 111, 218, 94, 218, 28, 217, 153, 13, 234, 156, 77, 206,
                190, 194, 250, 30, 49, 207, 141, 198, 12, 240, 193, 228, 175, 68, 10, 160 >>] )
  @@
  (   << 63, 255, 255, 255, 255, 255, 255, 255, 255, 255, 255, 255, 255, 255, 255, 255,
         174, 171, 183, 57, 171, 210, 40, 14, 239, 244, 151, 163, 52, 13, 144, 80 >>
   :> [x |-> << 166, 181, 148, 179, 143, 179, 231, 124, 110, 223, 120, 22, 31, 173, 226, 4,
                31, 78, 9, 253, 132, 151, 219, 119, 110, 84, 108, 65, 86, 127, 235, 60 >>,
       y |-> << 113, 68, 64, 9, 25, 34, 40, 115, 12, 216, 35, 122, 73, 15, 235, 162,
                175, 227, 210, 125, 124, 193, 19, 107, 201, 126, 67, 157, 19, 51, 13, 85 >>] )
  @@
  (   << 68, 92, 251, 136, 250, 162, 55, 41, 179, 149, 227, 10, 205, 21, 177, 27,
         79, 42, 242, 42, 196, 82, 55, 107, 144, 13, 6, 129, 32, 108, 119, 18 >>
   :> [x |-> << 9, 111, 95, 12, 227, 154, 217, 204, 241, 228, 193, 214, 66, 125, 233, 171,
                142, 1, 126, 6, 172, 249, 213, 117, 117, 55, 159, 8, 197, 135, 53, 245 >>,
       y |-> << 162, 251, 70, 53, 26, 141, 84, 116, 123, 174, 146, 79, 178, 133, 206, 89,
                12, 67, 202, 211, 108, 56, 74, 21, 88, 164, 77, 40, 55, 36, 111, 214 >>] )
  @@
  (   << 69, 211, 179, 103, 166, 144, 78, 110, 141, 80, 46, 224, 73, 153, 167, 194,
         118, 71, 249, 31, 168, 69, 212, 86, 82, 95, 211, 82, 174, 61, 115, 113 >>
   :> [x |-> << 253, 210, 149, 190, 65, 10, 133, 26, 198, 161, 210, 103, 88, 212, 181, 17,
                101, 63, 99, 167, 136, 120, 94, 128, 163, 145, 165, 73, 100, 210, 3, 116 >>,
       y |-> << 222, 177, 66, 15, 2, 89, 95, 234, 157, 240, 214, 212, 126, 152, 185, 31,
                230, 47, 218, 242, 205, 43, 96, 117, 211, 66, 57, 128, 163, 27, 150, 128 >>] )
  @@
  (   << 71, 23, 50, 133, 168, 215, 52, 30, 94, 151, 47, 198, 119, 40, 99, 132,
         248, 2, 248, 239, 66, 165, 236, 95, 3, 187, 250, 37, 76, 176, 31, 173 >>
   :> [x |-> << 4, 171, 17, 33, 169, 15, 79, 203, 226, 235, 191, 151, 32, 173, 85, 23,
                96, 206, 207, 59, 232, 131, 84, 86, 54, 74, 31, 240, 194, 157, 218, 105 >>,
       y |-> << 113, 107, 207, 71, 23, 7, 44, 197, 72, 111, 196, 204, 110, 147, 111, 99,
                175, 230, 113, 59, 118, 138, 60, 70, 62, 240, 154, 111, 175, 111, 113, 169 >>] )
  @@
  (   << 73, 208, 58, 25, 94, 35, 155, 82, 119, 152, 102, 179, 48, 36, 33, 15,
         199, 220, 102, 233, 194, 153, 137, 117, 192, 170, 69, 193, 112, 37, 73, 213 >>
   :> [x |-> << 46, 84, 250, 209, 6, 225, 83, 142, 249, 143, 12, 156, 242, 165, 81, 81,
                59, 182, 151, 13, 255, 188, 191, 66, 239, 81, 49, 177, 183, 114, 82, 214 >>,
       y |-> << 32, 244, 26, 66, 34, 164, 165, 52, 225, 137, 226, 43, 188, 240, 87, 19,
                50, 240, 151, 50, 23, 141, 98, 12, 129, 84, 50, 180, 243, 48, 176, 140 >>] )
  @@
  (   << 75, 138, 166, 241, 135, 109, 193, 178, 59, 175, 148, 75, 69, 136, 24, 29,
         155, 233, 69, 112, 206, 99, 45, 89, 144, 77, 188, 209, 216, 208, 97, 193 >>
   :> [x |-> << 215, 244, 178, 67, 21, 66, 203, 6, 62, 0, 72, 241, 63, 139, 30, 154,
                99, 123, 234, 218, 162, 185, 138, 58, 158, 20, 248, 223, 180, 218, 215, 202 >>,
       y |-> << 90, 104, 183, 14, 141, 78, 143, 244, 87, 220, 207, 107, 112, 205, 203, 161,
                85, 1, 91, 123, 229, 47, 166, 148, 253, 108, 122, 151, 245, 26, 239, 109 >>] )
  @@
  (   << 76, 173, 160, 222, 155, 11, 101, 70, 138, 119, 154, 115, 180, 37, 94, 28,
         129, 197, 216, 66, 87, 252, 109, 66, 72, 54, 126, 178, 54, 208, 51, 173 >>
   :> [x |-> << 106, 124, 62, 86, 222, 51, 21, 53, 214, 165, 50, 134, 186, 228, 4, 202,
                49, 210, 238, 42, 183, 149, 138, 17, 18, 234, 108, 39, 67, 1, 190, 35 >>,
       y |-> << 9, 240, 114, 187, 196, 111, 113, 164, 50, 93, 246, 194, 254, 16, 193, 238,
                121, 190, 36, 251, 104, 201, 186, 10, 16, 67, 118, 221, 152, 63, 219, 133 >>] )
  @@
  (   << 76, 205, 8, 155, 40, 255, 150, 218, 157, 182, 195, 70, 236, 17, 78, 15,
         91, 138, 49, 159, 53, 171, 166, 36, 218, 140, 246, 237, 79, 184, 166, 251 >>
   :> [x |-> << 14, 123, 60, 228, 137, 212, 157, 246, 56, 102, 226, 140, 55, 35, 26, 246,
                204, 251, 172, 162, 61, 20, 103, 75, 176, 16, 33, 145, 39, 254, 156, 71 >>,
       y |-> << 239, 199, 182, 228, 229, 34, 110, 3, 34, 214, 93, 234, 125, 222, 98, 190,
                7, 217, 116, 7, 169, 108, 40, 33, 142, 145, 148, 170, 133, 208, 104, 162 >>] )
  @@
  (   << 78, 3, 101, 122, 234, 69, 169, 79, 199, 212, 123, 168, 38, 200, 214, 103,
         192, 209, 230, 227, 58, 100, 160, 54, 236, 68, 245, 143, 161, 45, 108, 69 >>
   :> [x |-> << 159, 78, 109, 226, 108, 83, 207, 187, 152, 15, 18, 133, 100, 59, 165, 6,
                66, 44, 240, 156, 207, 159, 182, 12, 196, 167, 226, 51, 7, 112, 211, 159 >>,
       y |-> << 130, 63, 9, 138, 164, 111, 68, 248, 175, 252, 100, 75, 241, 70, 223, 172,
                223, 53, 135, 9, 172, 152, 184, 224, 11, 200, 175, 11, 250, 71, 242, 114 >>] )
  @@
  (   << 90, 240, 206, 149, 186, 28, 83, 39, 250, 58, 3, 162, 215, 16, 73, 162,
         141, 245, 97, 132, 97, 86, 138, 33, 172, 193, 208, 39, 163, 234, 118, 98 >>
   :> [x |-> << 11, 41, 108, 12, 72, 46, 90, 79, 163, 79, 81, 225, 232, 230, 119, 25,
                212, 156, 227, 18, 45, 136, 92, 189, 113, 119, 52, 247, 59, 152, 147, 123 >>,
       y |-> << 77, 109, 70, 205, 155, 138, 57, 255, 254, 193, 178, 15, 70, 49, 54, 143,
                143, 89, 254, 3, 235, 135, 136, 202, 82, 233, 24, 57, 155, 129, 50, 115 >>] )
  @@
  (   << 95, 66, 59, 249, 66, 198, 215, 78, 44, 128, 242, 222, 89, 185, 180, 158,
         20, 244, 177, 196, 163, 155, 111, 81, 225, 184, 247, 155, 138, 51, 228, 181 >>
   :> [x |-> << 26, 191, 182, 215, 138, 146, 191, 234, 171, 95, 231, 206, 47, 89, 58, 84,
                193, 194, 116, 227, 127, 120, 253, 98, 44, 177, 26, 24, 62, 162, 140, 199 >>,
       y |-> << 9, 252, 201, 197, 230, 185, 50, 106, 230, 52, 187, 6, 211, 186, 220, 143,
                111, 175, 255, 81, 1, 175, 58, 62, 213, 75, 116, 246, 227, 165, 66, 132 >>] )
  @@
  (   << 97, 229, 22, 226, 103, 110, 74, 222, 253, 21, 11, 35, 175, 61, 208, 159,
         190, 139, 37, 24, 130, 109, 105, 60, 39, 226, 139, 79, 162, 22, 14, 221 >>
   :> [x |-> << 219, 234, 138, 88, 124, 201, 149, 119, 7, 222, 34, 28, 162, 186, 244, 29,
                195, 232, 85, 250, 220, 180, 101, 227, 238, 195, 35, 37, 91, 20, 22, 250 >>,
       y |-> << 139, 98, 111, 91, 6, 62, 41, 166, 144, 144, 118, 250, 94, 115, 5, 172,
                18, 208, 234, 109, 214, 212, 110, 181, 84, 175, 27, 85, 163, 227, 222, 143 >>] )
  @@
  (   << 99, 31, 198, 21, 175, 11, 242, 9, 72, 170, 151, 199, 25, 48, 246, 15,
         36, 96, 185, 221, 29, 134, 95, 149, 151, 125, 162, 197, 155, 198, 222, 173 >>
   :> [x |-> << 70, 209, 194, 168, 27, 223, 74, 146, 72, 99, 142, 17, 173, 220, 83, 28,
                26, 62, 254, 99, 220, 144, 128, 123, 102, 112, 101, 203, 172, 219, 240, 147 >>,
       y |-> << 234, 60, 154, 190, 187, 205, 68, 34, 171, 221, 210, 196, 110, 102, 62, 17,
                123, 147, 119, 80, 21, 193, 93, 61, 106, 77, 146, 113, 120, 230, 187, 2 >>] )
  @@
  (   << 104, 94, 15, 70, 80, 46, 206, 165, 197, 41, 87, 148, 204, 122, 117, 182,
         242, 230, 0, 211, 66, 231, 116, 127, 7, 32, 128, 29, 174, 83, 218, 200 >>
   :> [x |-> << 137, 198, 49, 101, 175, 127, 188, 77, 134, 55, 136, 140, 131, 32, 155, 139,
                71, 250, 23, 63, 75, 118, 91, 36, 99, 111, 19, 27, 162, 220, 4, 215 >>,
       y |-> << 108, 238, 142, 120, 195, 239, 84, 10, 236, 124, 141, 96, 100, 112, 112, 190,
                92, 188, 112, 88, 99, 242, 20, 170, 48, 160, 234, 199, 74, 145, 35, 225 >>] )
  @@
  (   << 107, 86, 208, 55, 224, 95, 37, 152, 189, 15, 210, 33, 93, 106, 30, 82,
         149, 230, 79, 115, 246, 63, 10, 236, 139, 145, 90, 152, 93, 120, 101, 152 >>
   :> [x |-> << 131, 175, 177, 79, 8, 235, 39, 225, 17, 198, 74, 136, 36, 122, 43, 143,
                51, 191, 152, 24, 80, 126, 4, 207, 124, 19, 128, 116, 7, 87, 109, 16 >>,
       y |-> << 51, 104, 89, 44, 48, 0, 94, 54, 187, 68, 123, 146, 112, 92, 206, 138,
                152, 194, 22, 110, 48, 136, 14, 11, 50, 201, 199, 198, 4, 215, 67, 104 >>] )
  @@
  (   << 119, 209, 216, 235, 172, 209, 63, 78, 47, 138, 64, 226, 140, 74, 99, 188,
         156, 227, 191, 182, 151, 22, 51, 75, 203, 40, 163, 62, 177, 52, 8, 108 >>
   :> [x |-> << 30, 63, 90, 96, 197, 121, 211, 118, 76, 96, 7, 20, 195, 49, 96, 149,
                101, 60, 96, 114, 45, 208, 244, 251, 15, 88, 240, 20, 250, 70, 24, 55 >>,
       y |-> << 56, 84, 10, 177, 178, 239, 126, 184, 188, 181, 161, 79, 39, 125, 1, 150,
                121, 242, 56, 144, 42, 22, 147, 53, 222, 60, 53, 92, 103, 55, 241, 177 >>] )
  @@
  (   << 127, 255, 255, 255, 255, 255, 255, 255, 255, 255, 255, 255, 255, 255, 255, 255,
         93, 87, 110, 115, 87, 164, 80, 29, 223, 233, 47, 70, 104, 27, 32, 160 >>
   :> [x |-> << 0, 0, 0, 0, 0, 0, 0, 0, 0, 0, 0, 59, 120, 206, 86, 63,
                137, 160, 237, 148, 20, 245, 170, 40, 173, 13, 150, 214, 121, 95, 156, 99 >>,
       y |-> << 63, 57, 121, 191, 114, 174, 130, 2, 152, 61, 201, 137, 174, 199, 242, 255,
                46, 217, 27, 221, 105, 206, 2, 252, 7, 0, 202, 16, 14, 89, 221, 243 >>] )
  @@
  (   << 128, 0, 0, 0, 0, 0, 0, 0, 0, 0, 0, 0, 0, 0, 0, 0,
         0, 0, 0, 0, 0, 0, 0, 0, 0, 0, 0, 0, 0, 0, 0, 0 >>
   :> [x |-> << 178, 55, 144, 164, 43, 230, 62, 27, 37, 26, 214, 201, 79, 222, 240, 114,
                113, 236, 10, 173, 163, 29, 182, 195, 232, 189, 50, 4, 63, 139, 227, 132 >>,
       y |-> << 252, 107, 105, 73, 25, 213, 94, 219, 232, 213, 15, 136, 170, 129, 249, 69,
                23, 240, 4, 244, 20, 158, 203, 88, 209, 10, 71, 61, 235, 25, 136, 14 >>] )
  @@
  (   << 128, 178, 66, 99, 199, 193, 163, 235, 183, 20, 147, 193, 221, 123, 232, 180,
         155, 70, 209, 244, 27, 74, 238, 193, 18, 27, 1, 55, 131, 248, 243, 82 >>
   :> [x |-> << 81, 198, 60, 39, 173, 159, 23, 52, 245, 74, 10, 122, 202, 37, 188, 75,
                178, 23, 18, 89, 98, 33, 173, 135, 90, 117, 87, 61, 150, 86, 0, 190 >>,
       y |-> << 190, 71, 48, 109, 48, 175, 212, 220, 134, 89, 237, 219, 35, 94, 174, 194,
                46, 203, 250, 58, 164, 213, 254, 153, 187, 3, 86, 13, 157, 63, 121, 46 >>] )
  @@
  (   << 135, 170, 124, 222, 165, 239, 97, 157, 79, 240, 180, 36, 26, 29, 108, 176,
         35, 121, 244, 226, 206, 78, 194, 120, 122, 208, 179, 5, 69, 225, 124, 222 >>
   :> [x |-> << 229, 2, 134, 138, 146, 77, 9, 122, 96, 252, 236, 57, 49, 79, 156, 245,
                210, 47, 141, 186, 241, 88, 65, 184, 29, 250, 79, 72, 123, 29, 186, 123 >>,
       y |-> << 45, 173, 188, 156, 121, 60, 100, 149, 227, 119, 78, 204, 8, 24, 132, 8,
                225, 68, 109, 112, 235, 184, 140, 185, 80, 4, 226, 74, 55, 176, 69, 124 >>] )
  @@
  (   << 137, 245, 200, 59, 96, 206, 99, 223, 182, 156, 231, 98, 137, 92, 110, 252,
         121, 145, 156, 68, 92, 26, 18, 195, 84, 238, 34, 194, 94, 144, 103, 194 >>
   :> [x |-> << 41, 125, 106, 29, 195, 80, 139, 192, 245, 77, 134, 218, 20, 196, 132, 42,
                158, 239, 54, 229, 198, 184, 184, 176, 39, 66, 106, 65, 58, 230, 251, 221 >>,
       y |-> << 162, 253, 208, 197, 199, 230, 182, 150, 94, 2, 126, 92, 131, 119, 218, 19,
                79, 164, 78, 207, 164, 62, 22, 164, 139, 68, 133, 51, 226, 177, 65, 203 >>] )
  @@
  (   << 139, 212, 135, 43, 91, 130, 5, 53, 247, 188, 137, 59, 59, 245, 19, 5,
         46, 169, 213, 183, 65, 175, 21, 46, 96, 254, 160, 28, 47, 209, 61, 85 >>
   :> [x |-> << 107, 14, 89, 161, 243, 143, 182, 241, 39, 102, 155, 52, 1, 90, 189, 225,
                81, 124, 92, 116, 103, 49, 60, 147, 151, 180, 4, 133, 42, 181, 57, 220 >>,
       y |-> << 247, 116, 1, 224, 156, 102, 237, 63, 187, 215, 20, 212, 238, 167, 135, 217,
                11, 227, 55, 253, 22, 84, 92, 55, 74, 189, 128, 44, 14, 240, 117, 161 >>] )
  @@
  (   << 151, 88, 191, 117, 192, 90, 153, 74, 109, 3, 79, 101, 248, 240, 230, 253,
         202, 234, 177, 163, 77, 74, 107, 75, 99, 110, 7, 10, 56, 188, 231, 55 >>
   :> [x |-> << 26, 211, 120, 209, 111, 208, 11, 0, 21, 99, 198, 111, 145, 62, 62, 117,
                110, 33, 227, 233, 189, 127, 17, 251, 154, 118, 151, 84, 119, 14, 196, 130 >>,
       y |-> << 236, 20, 248, 244, 96, 111, 219, 206, 216, 57, 180, 65, 86, 155, 97, 235,
                56, 138, 122, 142, 87, 74, 185, 246, 179, 90, 85, 223, 64, 44, 70, 35 >>] )
  @@
  (   << 157, 97, 177, 157, 239, 253, 90, 96, 186, 132, 74, 244, 146, 236, 44, 196,
         68, 73, 197, 105, 123, 50, 105, 25, 112, 59, 172, 3, 28, 174, 127, 96 >>
   :> [x |-> << 141, 181, 91, 5, 219, 134, 192, 177, 120, 108, 164, 159, 9, 93, 118, 52,
                76, 158, 96, 86, 178, 240, 39, 1, 167, 231, 243, 194, 10, 171, 253, 145 >>,
       y |-> << 62, 187, 225, 72, 221, 23, 197, 101, 81, 165, 41, 82, 55, 16, 113, 166,
                198, 4, 179, 243, 171, 232, 242, 200, 250, 116, 33, 88, 234, 109, 215, 212 >>] )
  @@
  (   << 164, 197, 214, 217, 30, 132, 47, 24, 177, 240, 115, 127, 251, 51, 162, 203,
         15, 117, 199, 165, 61, 105, 252, 47, 119, 99, 186, 51, 162, 177, 0, 139 >>
   :> [x |-> << 121, 252, 17, 210, 194, 15, 120, 32, 94, 189, 148, 199, 9, 190, 214, 201,
                244, 203, 46, 21, 165, 125, 29, 91, 158, 68, 214, 196, 179, 47, 142, 144 >>,
       y |-> << 83, 40, 176, 56, 92, 192, 251, 30, 167, 91, 153, 125, 46, 249, 247, 117,
                20, 79, 179, 215, 63, 133, 127, 95, 45, 82, 122, 177, 40, 229, 185, 163 >>] )
  @@
  (   << 169, 28, 165, 193, 26, 162, 94, 180, 214, 121, 39, 92, 197, 120, 128, 99,
         165, 241, 151, 65, 18, 12, 79, 45, 226, 173, 235, 235, 16, 162, 152, 221 >>
   :> [x |-> << 15, 69, 242, 101, 107, 34, 47, 126, 251, 193, 97, 40, 196, 185, 4, 72,
                43, 174, 241, 120, 49, 181, 230, 35, 72, 251, 184, 0, 128, 63, 139, 159 >>,
       y |-> << 208, 243, 233, 30, 138, 37, 2, 49, 66, 189, 65, 223, 79, 7, 71, 125,
                220, 24, 38, 122, 169, 164, 110, 110, 69, 156, 22, 135, 76, 170, 2, 236 >>] )
  @@
  (   << 172, 9, 116, 190, 195, 154, 23, 227, 107, 164, 166, 180, 210, 56, 255, 148,
         75, 172, 180, 120, 203, 237, 94, 252, 174, 120, 77, 123, 244, 242, 255, 128 >>
   :> [x |-> << 131, 24, 83, 91, 84, 16, 93, 74, 122, 174, 96, 192, 143, 196, 95, 150,
                135, 24, 27, 79, 223, 198, 37, 189, 26, 117, 63, 167, 57, 127, 237, 117 >>,
       y |-> << 53, 71, 241, 28, 168, 105, 102, 70, 242, 243, 172, 176, 142, 49, 1, 106,
                250, 194, 62, 99, 12, 93, 17, 245, 159, 97, 254, 245, 123, 13, 42, 165 >>] )
  @@
  (   << 176, 95, 81, 145, 195, 39, 193, 69, 77, 58, 183, 186, 186, 227, 27, 192,
         250, 102, 204, 91, 149, 201, 169, 212, 250, 233, 179, 25, 17, 168, 93, 21 >>
   :> [x |-> << 42, 65, 229, 10, 138, 0, 161, 85, 30, 123, 194, 178, 160, 133, 103, 211,
                174, 134, 170, 112, 31, 158, 71, 32, 23, 224, 175, 169, 133, 230, 2, 41 >>,
       y |-> << 62, 96, 4, 229, 2, 82, 11, 34, 106, 152, 120, 170, 94, 146, 107, 145,
                94, 16, 140, 169, 144, 204, 72, 250, 184, 54, 14, 190, 85, 236, 49, 65 >>] )
  @@
  (   << 176, 186, 70, 86, 55, 69, 140, 105, 144, 229, 168, 197, 246, 29, 74, 247,
         229, 118, 217, 127, 249, 75, 135, 45, 231, 111, 128, 80, 54, 30, 227, 219 >>
   :> [x |-> << 14, 166, 138, 98, 28, 130, 51, 106, 66, 188, 117, 175, 190, 49, 213, 37,
                207, 228, 186, 94, 159, 209, 74, 198, 79, 15, 34, 150, 223, 254, 71, 100 >>,
       y |-> << 252, 250, 199, 184, 251, 8, 156, 82, 128, 239, 137, 98, 240, 136, 143, 137,
                214, 22, 78, 91, 169, 70, 81, 88, 42, 2, 196, 165, 159, 7, 135, 50 >>] )
  @@
  (   << 181, 72, 183, 238, 219, 61, 107, 91, 186, 36, 130, 33, 180, 197, 62, 97,
         191, 105, 152, 219, 12, 204, 185, 63, 47, 39, 138, 120, 125, 188, 233, 64 >>
   :> [x |-> << 105, 39, 29, 199, 82, 168, 50, 201, 146, 168, 152, 114, 68, 239, 20, 16,
                11, 59, 51, 76, 219, 71, 8, 177, 203, 63, 169, 196, 84, 34, 44, 205 >>,
       y |-> << 139, 116, 54, 187, 25, 113, 82, 85, 164, 26, 67, 72, 171, 206, 109, 94,
                226, 121, 138, 101, 28, 106, 230, 132, 220, 77, 203, 78, 33, 214, 213, 151 >>] )
  @@
  (   << 181, 250, 172, 181, 192, 218, 247, 85, 152, 196, 235, 111, 45, 82, 56, 97,
         51, 24, 20, 104, 15, 2, 204, 15, 219, 3, 176, 5, 54, 74, 214, 147 >>
   :> [x |-> << 223, 91, 230, 198, 58, 150, 244, 102, 121, 226, 190, 150, 4, 190, 208, 142,
                31, 220, 177, 41, 253, 228, 51, 129, 45, 70, 9, 152, 243, 100, 26, 183 >>,
       y |-> << 94, 187, 229, 166, 32, 9, 222, 155, 25, 158, 144, 60, 227, 161, 177, 117,
                130, 224, 62, 74, 62, 230, 86, 5, 200, 117, 88, 24, 6, 209, 252, 178 >>] )
  @@
  (   << 182, 2, 44, 172, 60, 73, 130, 177, 13, 94, 235, 85, 195, 228, 222, 21,
         19, 70, 118, 251, 109, 224, 68, 96, 101, 201, 116, 64, 250, 140, 106, 88 >>
   :> [x |-> << 150, 188, 168, 9, 222, 176, 107, 31, 230, 249, 99, 151, 109, 255, 12, 255,
                168, 76, 102, 0, 150, 130, 153, 214, 248, 217, 172, 57, 240, 135, 13, 108 >>,
       y |-> << 225, 106, 227, 250, 77, 198, 131, 117, 49, 211, 227, 190, 84, 56, 63, 208,
                187, 85, 27, 72, 180, 143, 132, 96, 134, 57, 245, 64, 206, 78, 146, 102 >>] )
  @@
  (   << 185, 92, 91, 5, 44, 171, 230, 230, 230, 40, 64, 8, 50, 98, 73, 158,
         83, 149, 29, 148, 221, 97, 137, 48, 160, 217, 61, 174, 123, 204, 224, 138 >>
   :> [x |-> << 100, 116, 211, 160, 3, 226, 105, 207, 50, 108, 0, 135, 231, 187, 38, 171,
                62, 216, 92, 168, 185, 39, 222, 50, 226, 83, 12, 22, 142, 51, 109, 129 >>,
       y |-> << 219, 96, 133, 216, 135, 175, 41, 161, 198, 3, 19, 216, 156, 4, 4, 174,
                173, 43, 184, 18, 206, 157, 136, 201, 144, 6, 79, 134, 85, 4, 51, 106 >>] )
  @@
  (   << 188, 54, 120, 158, 122, 30, 40, 20, 54, 70, 66, 41, 130, 143, 129, 125,
         102, 18, 247, 180, 119, 214, 101, 145, 255, 150, 169, 224, 100, 188, 201, 138 >>
   :> [x |-> << 183, 147, 236, 17, 98, 154, 204, 173, 253, 81, 131, 92, 130, 101, 67, 145,
                250, 211, 247, 72, 154, 243, 100, 64, 21, 84, 3, 227, 102, 220, 103, 120 >>,
       y |-> << 8, 250, 88, 126, 215, 87, 108, 18, 116, 228, 252, 223, 136, 103, 137, 183,
                43, 82, 222, 94, 30, 237, 57, 7, 80, 13, 157, 77, 63, 138, 161, 251 >>] )
  @@
  (   << 191, 62, 132, 130, 121, 167, 34, 200, 6, 180, 133, 164, 126, 103, 200, 7,
         185, 70, 163, 55, 190, 232, 148, 38, 116, 39, 136, 89, 225, 50, 146, 251 >>
   :> [x |-> << 177, 200, 52, 226, 226, 3, 34, 203, 228, 225, 49, 81, 176, 164, 215, 43,
                204, 124, 241, 225, 202, 252, 151, 236, 127, 95, 233, 233, 143, 150, 40, 96 >>,
       y |-> << 210, 111, 178, 121, 182, 249, 18, 50, 247, 59, 20, 9, 213, 131, 61, 198,
                6, 80, 167, 204, 113, 91, 140, 54, 56, 102, 35, 166, 7, 10, 213, 144 >>] )
  @@
  (   << 191, 255, 255, 255, 255, 255, 255, 255, 255, 255, 255, 255, 255, 255, 255, 255,
         12, 3, 37, 173, 3, 118, 120, 44, 207, 221, 198, 233, 156, 40, 176, 240 >>
   :> [x |-> << 226, 76, 228, 190, 238, 41, 74, 166, 53, 15, 170, 103, 81, 43, 153, 211,
                136, 105, 58, 228, 231, 245, 61, 25, 136, 42, 110, 161, 105, 252, 28, 225 >>,
       y |-> << 139, 113, 232, 53, 69, 252, 43, 88, 114, 88, 159, 153, 217, 72, 192, 49,
                8, 211, 103, 151, 196, 222, 54, 62, 189, 63, 246, 169, 225, 169, 91, 16 >>] )
  @@
  (   << 197, 210, 70, 1, 134, 247, 35, 60, 146, 126, 125, 178, 220, 199, 3, 192,
         229, 0, 182, 83, 202, 130, 39, 59, 123, 250, 216, 4, 93, 133, 164, 112 >>
   :> [x |-> << 166, 58, 7, 232, 136, 6, 30, 201, 232, 182, 74, 61, 194, 147, 120, 5,
                199, 96, 137, 175, 54, 69, 147, 5, 146, 3, 115, 205, 152, 169, 244, 206 >>,
       y |-> << 21, 194, 125, 187, 230, 9, 40, 22, 30, 182, 42, 225, 159, 148, 234, 72,
                243, 153, 206, 133, 230, 219, 105, 133, 32, 243, 188, 212, 169, 37, 113, 87 >>] )
  @@
  (   << 202, 254, 186, 190, 202, 254, 186, 190, 202, 254, 186, 190, 202, 254, 186, 190,
         202, 254, 186, 190, 202, 254, 186, 190, 202, 254, 186, 190, 202, 254, 186, 190 >>
   :> [x |-> << 103, 42, 49, 191, 197, 157, 63, 4, 84, 142, 201, 183, 218, 238, 186, 47,
                97, 129, 78, 140, 204, 64, 68, 128, 69, 0, 127, 84, 121, 246, 147, 163 >>,
       y |-> << 46, 2, 199, 249, 61, 19, 220, 39, 50, 183, 96, 202, 55, 122, 88, 151,
                185, 221, 65, 161, 193, 178, 157, 192, 68, 47, 220, 230, 208, 160, 77, 29 >>] )
  @@
  (   << 213, 180, 74, 74, 215, 146, 94, 137, 224, 239, 32, 255, 122, 60, 123, 37,
         210, 123, 61, 124, 110, 124, 156, 141, 90, 142, 159, 190, 175, 59, 108, 77 >>
   :> [x |-> << 240, 4, 141, 114, 16, 53, 19, 73, 128, 68, 95, 32, 224, 150, 161, 53,
                91, 182, 201, 161, 226, 41, 242, 106, 142, 210, 221, 62, 201, 192, 201, 92 >>,
       y |-> << 215, 100, 143, 185, 101, 164, 72, 148, 210, 29, 249, 193, 50, 193, 48, 57,
                129, 126, 13, 231, 33, 221, 186, 7, 143, 8, 37, 246, 180, 206, 101, 217 >>] )
  @@
  (   << 215, 90, 152, 1, 130, 177, 10, 183, 213, 75, 254, 211, 201, 100, 7, 58,
         14, 225, 114, 243, 218, 166, 35, 37, 175, 2, 26, 104, 247, 7, 81, 26 >>
   :> [x |-> << 80, 98, 179, 123, 199, 26, 116, 74, 7, 94, 108, 248, 30, 146, 202, 106,
                235, 44, 169, 255, 134, 253, 167, 167, 166, 173, 72, 21, 145, 151, 146, 14 >>,
       y |-> << 132, 174, 201, 37, 206, 107, 96, 199, 196, 208, 216, 120, 53, 232, 116, 56,
                79, 178, 98, 151, 159, 233, 48, 56, 177, 200, 248, 45, 16, 112, 114, 10 >>] )
  @@
  (   << 217, 22, 27, 217, 254, 223, 165, 6, 171, 72, 164, 79, 41, 206, 194, 76,
         68, 148, 92, 150, 183, 35, 150, 145, 7, 179, 202, 48, 193, 234, 247, 6 >>
   :> [x |-> << 202, 171, 137, 185, 223, 43, 97, 142, 4, 229, 14, 186, 111, 59, 96, 226,
                134, 85, 116, 41, 135, 104, 20, 122, 250, 133, 26, 113, 161, 189, 70, 3 >>,
       y |-> << 179, 100, 229, 150, 4, 59, 231, 164, 18, 50, 24, 42, 114, 11, 217, 129,
                62, 65, 199, 160, 76, 226, 207, 200, 19, 70, 31, 211, 40, 217, 89, 229 >>] )
  @@
  (   << 218, 168, 51, 183, 214, 184, 167, 2, 3, 139, 39, 78, 174, 163, 244, 228,
         190, 157, 145, 78, 235, 97, 241, 112, 46, 105, 108, 32, 58, 18, 104, 84 >>
   :> [x |-> << 33, 1, 213, 100, 28, 90, 198, 65, 4, 243, 147, 59, 149, 123, 15, 176,
                50, 15, 78, 78, 221, 243, 138, 71, 72, 25, 132, 185, 172, 50, 186, 44 >>,
       y |-> << 127, 114, 100, 202, 147, 252, 108, 164, 108, 139, 37, 6, 119, 35, 80, 31,
                100, 240, 147, 197, 82, 35, 17, 241, 146, 164, 181, 107, 235, 237, 96, 110 >>] )
  @@
  (   << 218, 245, 152, 64, 238, 142, 44, 250, 65, 234, 108, 212, 229, 23, 82, 154,
         187, 172, 204, 5, 58, 204, 187, 1, 102, 121, 120, 56, 122, 155, 100, 14 >>
   :> [x |-> << 83, 106, 46, 180, 152, 165, 241, 96, 217, 75, 176, 15, 42, 0, 97, 198,
                210, 114, 201, 96, 43, 203, 50, 190, 233, 1, 18, 78, 126, 167, 49, 247 >>,
       y |-> << 149, 179, 205, 236, 91, 9, 23, 222, 213, 82, 195, 16, 165, 202, 235, 147,
                141, 43, 220, 59, 248, 228, 12, 34, 133, 19, 166, 67, 67, 84, 80, 248 >>] )
  @@
  (   << 220, 146, 68, 105, 179, 52, 174, 210, 161, 159, 172, 114, 82, 233, 150, 26,
         234, 65, 248, 217, 25, 150, 54, 96, 41, 219, 224, 136, 66, 41, 191, 54 >>
   :> [x |-> << 147, 38, 57, 158, 85, 87, 1, 232, 220, 133, 28, 84, 235, 174, 219, 46,
                166, 28, 229, 80, 194, 164, 251, 0, 34, 215, 69, 9, 0, 180, 121, 132 >>,
       y |-> << 128, 212, 33, 70, 160, 231, 184, 137, 53, 108, 208, 29, 28, 222, 6, 145,
                22, 41, 192, 189, 23, 220, 56, 66, 173, 233, 167, 29, 170, 43, 19, 110 >>] )
  @@
  (   << 222, 173, 190, 239, 222, 173, 190, 239, 222, 173, 190, 239, 222, 173, 190, 239,
         222, 173, 190, 239, 222, 173, 190, 239, 222, 173, 190, 239, 222, 173, 190, 239 >>
   :> [x |-> << 198, 183, 84, 178, 8, 38, 235, 146, 94, 5, 46, 226, 194, 82, 133, 177,
                98, 181, 31, 220, 167, 50, 188, 246, 126, 57, 214, 71, 251, 104, 48, 174 >>,
       y |-> << 182, 81, 148, 74, 87, 74, 54, 32, 130, 167, 126, 63, 43, 93, 146, 35,
                235, 84, 215, 242, 247, 104, 70, 82, 43, 247, 95, 59, 237, 184, 23, 142 >>] )
  @@
  (   << 224, 19, 145, 145, 20, 152, 191, 95, 52, 134, 215, 197, 253, 17, 247, 177,
         0, 170, 23, 56, 157, 51, 254, 33, 158, 170, 1, 100, 241, 144, 60, 201 >>
   :> [x |-> << 191, 197, 200, 126, 18, 233, 71, 69, 112, 105, 205, 55, 153, 9, 157, 75,
                119, 196, 63, 241, 62, 208, 232, 141, 102, 202, 198, 147, 219, 33, 209, 33 >>,
       y |-> << 46, 16, 254, 14, 226, 59, 137, 170, 8, 28, 38, 103, 55, 162, 226, 198,
                159, 48, 143, 27, 224, 246, 68, 223, 173, 32, 47, 207, 104, 125, 31, 37 >>] )
  @@
  (   << 227, 123, 106, 119, 93, 200, 125, 186, 164, 223, 169, 249, 110, 94, 63, 253,
         222, 189, 113, 248, 134, 114, 137, 134, 93, 245, 163, 45, 32, 205, 201, 68 >>
   :> [x |-> << 105, 251, 47, 5, 31, 246, 91, 158, 249, 245, 143, 13, 248, 187, 139, 209,
                248, 244, 242, 189, 193, 233, 10, 170, 215, 7, 117, 147, 145, 67, 146, 123 >>,
       y |-> << 160, 73, 51, 227, 240, 199, 213, 53, 222, 10, 88, 89, 13, 128, 9, 174,
                205, 199, 105, 61, 26, 163, 179, 2, 94, 126, 74, 97, 92, 134, 3, 163 >>] )
  @@
  (   << 239, 255, 255, 255, 255, 255, 255, 255, 255, 255, 255, 255, 255, 255, 255, 239,
         171, 234, 205, 110, 250, 132, 10, 179, 251, 45, 229, 200, 13, 99, 20, 255 >>
   :> [x |-> << 65, 106, 189, 103, 177, 199, 180, 25, 185, 203, 68, 65, 12, 59, 245, 98,
                120, 103, 230, 245, 195, 227, 255, 133, 65, 31, 24, 242, 201, 31, 144, 24 >>,
       y |-> << 33, 9, 218, 137, 246, 147, 100, 198, 45, 6, 173, 108, 43, 38, 116, 76,
                88, 17, 71, 240, 103, 180, 192, 45, 153, 173, 239, 95, 30, 216, 97, 96 >>] )
  @@
  (   << 240, 74, 247, 5, 116, 53, 83, 18, 249, 0, 240, 39, 116, 58, 20, 175,
         0, 38, 11, 168, 156, 30, 116, 170, 35, 207, 220, 199, 108, 205, 59, 24 >>
   :> [x |-> << 109, 229, 8, 202, 247, 193, 131, 186, 126, 33, 235, 73, 3, 167, 218, 160,
                236, 50, 107, 7, 152, 57, 37, 248, 187, 210, 2, 62, 249, 41, 123, 208 >>,
       y |-> << 97, 185, 178, 49, 149, 17, 169, 12, 250, 159, 55, 85, 57, 21, 33, 19,
                215, 118, 251, 215, 153, 238, 104, 249, 247, 113, 60, 184, 180, 141, 92, 14 >>] )
  @@
  (   << 245, 25, 116, 126, 213, 153, 2, 79, 56, 130, 35, 142, 90, 180, 57, 96,
         19, 37, 114, 183, 52, 95, 190, 185, 169, 7, 105, 218, 253, 33, 173, 103 >>
   :> [x |-> << 162, 118, 86, 104, 57, 129, 142, 85, 209, 3, 163, 82, 23, 42, 185, 45,
                242, 87, 89, 74, 120, 192, 112, 91, 19, 87, 163, 186, 200, 100, 145, 62 >>,
       y |-> << 162, 217, 216, 250, 169, 151, 203, 39, 27, 85, 145, 171, 218, 180, 102, 71,
                191, 101, 12, 165, 164, 218, 214, 170, 60, 79, 248, 19, 17, 26, 245, 104 >>] )
  @@
  (   << 245, 229, 118, 124, 241, 83, 49, 149, 23, 99, 15, 34, 104, 118, 184, 108,
         129, 96, 204, 88, 59, 192, 19, 116, 76, 107, 242, 85, 245, 204, 14, 229 >>
   :> [x |-> << 174, 48, 5, 109, 238, 99, 141, 40, 95, 8, 21, 111, 174, 167, 4, 243,
                21, 59, 108, 68, 147, 109, 14, 234, 134, 193, 105, 63, 8, 151, 168, 255 >>,
       y |-> << 164, 239, 41, 228, 113, 11, 229, 29, 74, 231, 57, 151, 238, 11, 94, 199,
                226, 154, 116, 99, 217, 166, 149, 154, 171, 38, 174, 14, 250, 148, 204, 109 >>] )
  @@
  (   << 250, 115, 176, 8, 157, 86, 162, 132, 239, 176, 240, 117, 108, 137, 11, 233,
         177, 181, 219, 221, 142, 232, 26, 54, 85, 248, 62, 51, 178, 39, 157, 57 >>
   :> [x |-> << 129, 186, 52, 30, 119, 45, 182, 134, 50, 53, 146, 81, 225, 39, 185, 130,
                64, 11, 89, 122, 42, 22, 217, 244, 94, 180, 176, 23, 26, 103, 38, 94 >>,
       y |-> << 133, 160, 112, 225, 253, 203, 35, 107, 110, 42, 45, 8, 165, 4, 157, 226,
                252, 31, 233, 136, 27, 106, 106, 43, 98, 45, 96, 37, 226, 158, 203, 142 >>] )
  @@
  (   << 250, 218, 230, 180, 159, 18, 155, 187, 129, 43, 232, 64, 123, 123, 40, 148,
         243, 74, 236, 246, 219, 209, 249, 176, 240, 199, 233, 133, 48, 152, 252, 150 >>
   :> [x |-> << 171, 21, 40, 21, 140, 211, 209, 12, 231, 105, 137, 98, 225, 194, 123, 37,
                255, 44, 177, 190, 177, 154, 200, 235, 161, 72, 125, 87, 186, 228, 235, 99 >>,
       y |-> << 233, 25, 93, 234, 239, 200, 46, 159, 188, 82, 52, 125, 247, 145, 74, 66,
                76, 135, 230, 25, 82, 136, 123, 201, 193, 52, 61, 145, 39, 55, 224, 232 >>] )
  @@
  (   << 252, 133, 183, 231, 23, 48, 214, 205, 135, 72, 42, 171, 45, 114, 84, 113,
         54, 255, 53, 243, 73, 114, 69, 74, 125, 93, 88, 149, 53, 57, 173, 232 >>
   :> [x |-> << 144, 10, 67, 149, 143, 233, 148, 163, 72, 84, 22, 178, 89, 73, 47, 54,
                193, 176, 132, 47, 191, 37, 74, 49, 110, 39, 187, 121, 41, 205, 110, 97 >>,
       y |-> << 226, 190, 125, 83, 189, 153, 36, 146, 35, 151, 38, 56, 247, 59, 140, 246,
                22, 111, 113, 164, 172, 249, 107, 3, 86, 74, 231, 180, 90, 197, 170, 12 >>] )
  @@
  (   << 253, 129, 38, 199, 161, 92, 79, 61, 113, 19, 72, 166, 153, 8, 141, 69,
         246, 9, 205, 37, 238, 88, 10, 79, 54, 39, 150, 62, 183, 155, 104, 34 >>
   :> [x |-> << 9, 199, 225, 105, 214, 141, 113, 77, 188, 50, 36, 218, 243, 221, 156, 88,
                190, 101, 133, 144, 101, 202, 43, 8, 134, 228, 108, 180, 241, 186, 204, 177 >>,
       y |-> << 96, 220, 253, 168, 6, 225, 147, 52, 60, 221, 183, 144, 255, 73, 207, 105,
                218, 60, 149, 196, 207, 15, 41, 28, 67, 51, 159, 119, 43, 110, 90, 206 >>] )
  @@
  (   << 254, 221, 120, 25, 190, 98, 245, 224, 136, 47, 150, 237, 121, 143, 220, 232,
         175, 147, 123, 169, 127, 117, 54, 104, 156, 230, 221, 121, 230, 38, 47, 68 >>
   :> [x |-> << 11, 104, 220, 7, 252, 68, 195, 40, 49, 170, 150, 214, 208, 219, 9, 22,
                23, 125, 106, 64, 166, 188, 231, 160, 28, 2, 244, 46, 217, 179, 110, 86 >>,
       y |-> << 160, 126, 145, 114, 238, 94, 49, 78, 32, 188, 59, 95, 136, 184, 97, 117,
                176, 125, 218, 227, 193, 14, 242, 119, 248, 236, 181, 59, 255, 156, 18, 78 >>] )
  @@
  (   << 254, 255, 255, 255, 255, 255, 255, 255, 255, 255, 255, 255, 255, 255, 255, 254,
         186, 174, 220, 230, 175, 72, 160, 59, 191, 210, 94, 140, 208, 54, 65, 255 >>
   :> [x |-> << 176, 251, 101, 213, 255, 141, 111, 158, 112, 98, 221, 1, 116, 147, 169, 215,
                226, 249, 196, 49, 154, 75, 114, 113, 144, 102, 224, 8, 225, 127, 92, 253 >>,
       y |-> << 137, 108, 124, 18, 174, 245, 232, 52, 68, 97, 95, 188, 50, 239, 143, 193,
                69, 211, 28, 204, 49, 234, 184, 148, 19, 150, 31, 51, 150, 97, 90, 246 >>] )
  @@
  (   << 255, 245, 177, 153, 242, 138, 55, 156, 253, 78, 216, 251, 40, 158, 84, 17,
         91, 129, 171, 95, 246, 118, 222, 105, 135, 209, 82, 83, 110, 43, 101, 157 >>
   :> [x |-> << 160, 7, 176, 210, 201, 235, 254, 165, 180, 12, 119, 131, 123, 136, 255, 208,
                29, 218, 120, 161, 99, 92, 199, 112, 30, 129, 115, 79, 145, 238, 36, 25 >>,
       y |-> << 83, 169, 134, 236, 253, 44, 249, 90, 77, 126, 5, 34, 15, 12, 249, 151,
                75, 196, 251, 156, 96, 98, 21, 97, 146, 51, 148, 243, 36, 159, 80, 219 >>] )
  @@
  (   << 255, 255, 255, 255, 255, 255, 255, 255, 255, 255, 255, 255, 255, 255, 255, 239,
         155, 255, 255, 255, 255, 255, 255, 255, 255, 255, 255, 255, 255, 255, 255, 255 >>
   :> [x |-> << 20, 7, 224, 3, 51, 254, 166, 51, 110, 84, 180, 251, 47, 172, 130, 207,
                195, 233, 1, 105, 109, 4, 134, 183, 151, 3, 139, 182, 254, 235, 170, 160 >>,
       y |-> << 127, 36, 111, 4, 254, 171, 212, 49, 161, 1, 4, 106, 15, 249, 49, 70,
                3, 95, 245, 45, 179, 176, 107, 173, 2, 176, 14, 148, 89, 201, 120, 240 >>] )
  @@
  (   << 255, 255, 255, 255, 255, 255, 255, 255, 255, 255, 255, 255, 255, 255, 255, 239,
         171, 234, 205, 110, 250, 132, 10, 179, 251, 45, 229, 200, 13, 99, 20, 4 >>
   :> [x |-> << 212, 69, 90, 73, 134, 225, 180, 201, 64, 114, 63, 35, 51, 219, 39, 26,
                218, 210, 247, 78, 86, 223, 82, 169, 163, 123, 15, 229, 248, 204, 189, 97 >>,
       y |-> << 105, 242, 88, 220, 46, 84, 107, 127, 175, 1, 201, 142, 30, 151, 124, 45,
                141, 245, 26, 200, 201, 186, 199, 210, 138, 245, 100, 184, 218, 182, 137, 247 >>] )
  @@
  (   << 255, 255, 255, 255, 255, 255, 255, 255, 255, 255, 255, 255, 255, 255, 255, 239,
         171, 234, 205, 110, 250, 132, 10, 179, 251, 45, 229, 200, 13, 99, 20, 20 >>
   :> [x |-> << 133, 0, 219, 251, 107, 46, 109, 214, 176, 185, 92, 222, 206, 177, 80, 7,
                17, 116, 148, 193, 89, 140, 73, 68, 106, 99, 255, 182, 185, 106, 93, 104 >>,
       y |-> << 247, 83, 69, 26, 98, 220, 210, 5, 137, 132, 202, 204, 93, 50, 78, 80,
                89, 104, 15, 91, 211, 10, 241, 72, 3, 34, 13, 207, 197, 47, 133, 146 >>] )
  @@
  (   << 255, 255, 255, 255, 255, 255, 255, 255, 255, 255, 255, 255, 255, 255, 255, 239,
         171, 234, 205, 110, 250, 132, 10, 179, 251, 45, 229, 200, 13, 99, 20, 36 >>
   :> [x |-> << 32, 221, 16, 73, 219, 182, 219, 42, 106, 242, 51, 120, 232, 211, 216, 103,
                85, 240, 38, 85, 254, 248, 188, 7, 98, 87, 126, 39, 166, 130, 178, 145 >>,
       y |-> << 11, 160, 168, 72, 26, 36, 225, 181, 158, 205, 248, 161, 93, 2, 137, 194,
                242, 39, 130, 64, 252, 239, 147, 240, 201, 195, 178, 42, 43, 148, 223, 100 >>] )
  @@
  (   << 255, 255, 255, 255, 255, 255, 255, 255, 255, 255, 255, 255, 255, 255, 255, 254,
         185, 255, 255, 255, 255, 255, 255, 255, 255, 255, 255, 255, 255, 255, 255, 255 >>
   :> [x |-> << 116, 68, 50, 88, 73, 46, 83, 213, 185, 126, 213, 232, 23, 78, 197, 162,
                141, 70, 204, 211, 109, 127, 11, 5, 84, 162, 18, 155, 213, 149, 207, 53 >>,
       y |-> << 99, 107, 74, 37, 48, 30, 128, 241, 119, 167, 69, 166, 73, 147, 218, 70,
                238, 207, 216, 216, 210, 240, 226, 123, 129, 140, 132, 223, 40, 11, 225, 25 >>] )
  @@
  (   << 255, 255, 255, 255, 255, 255, 255, 255, 255, 255, 255, 255, 255, 255, 255, 254,
         186, 174, 220, 230, 175, 72, 160, 59, 191, 210, 94, 140, 208, 54, 65, 45 >>
   :> [x |-> << 76, 225, 25, 201, 110, 47, 163, 87, 32, 11, 85, 155, 47, 125, 213, 165,
                240, 45, 82, 144, 175, 247, 75, 3, 243, 228, 113, 178, 115, 33, 28, 151 >>,
       y |-> << 237, 69, 217, 35, 78, 241, 62, 157, 162, 89, 224, 94, 245, 123, 179, 152,
                158, 157, 107, 125, 142, 38, 150, 152, 186, 253, 119, 16, 109, 204, 31, 245 >>] )
  @@
  (   << 255, 255, 255, 255, 255, 255, 255, 255, 255, 255, 255, 255, 255, 255, 255, 254,
         186, 174, 220, 230, 175, 72, 160, 59, 191, 210, 94, 140, 208, 54, 65, 46 >>
   :> [x |-> << 43, 78, 160, 167, 151, 164, 67, 210, 147, 239, 92, 255, 68, 79, 73, 121,
                240, 106, 207, 235, 215, 232, 109, 39, 116, 117, 101, 97, 56, 56, 91, 108 >>,
       y |-> << 122, 23, 100, 63, 200, 107, 162, 108, 76, 188, 247, 196, 165, 227, 121, 236,
                229, 254, 9, 243, 175, 217, 104, 156, 74, 143, 55, 170, 26, 63, 96, 181 >>] )
  @@
  (   << 255, 255, 255, 255, 255, 255, 255, 255, 255, 255, 255, 255, 255, 255, 255, 254,
         186, 174, 220, 230, 175, 72, 160, 59, 191, 210, 94, 140, 208, 54, 65, 47 >>
   :> [x |-> << 86, 1, 87, 12, 180, 127, 35, 141, 43, 2, 134, 219, 74, 153, 15, 160,
                243, 186, 40, 209, 163, 25, 245, 231, 207, 85, 194, 162, 68, 77, 167, 204 >>,
       y |-> << 62, 201, 62, 35, 243, 65, 70, 207, 22, 29, 103, 251, 202, 118, 202, 226,
                126, 39, 31, 67, 140, 149, 29, 94, 10, 230, 209, 160, 116, 249, 222, 215 >>] )
  @@
  (   << 255, 255, 255, 255, 255, 255, 255, 255, 255, 255, 255, 255, 255, 255, 255, 254,
         186, 174, 220, 230, 175, 72, 160, 59, 191, 210, 94, 140, 208, 54, 65, 48 >>
   :> [x |-> << 222, 253, 234, 76, 219, 103, 119, 80, 164, 32, 254, 232, 7, 234, 207, 33,
                235, 152, 152, 174, 121, 185, 118, 135, 102, 228, 250, 160, 74, 45, 74, 52 >>,
       y |-> << 189, 238, 84, 249, 107, 156, 174, 151, 22, 104, 79, 21, 45, 86, 194, 81,
                49, 46, 11, 95, 181, 106, 63, 9, 48, 78, 102, 8, 97, 169, 16, 184 >>] )
  @@
  (   << 255, 255, 255, 255, 255, 255, 255, 255, 255, 255, 255, 255, 255, 255, 255, 254,
         186, 174, 220, 230, 175, 72, 160, 59, 191, 210, 94, 140, 208, 54, 65, 49 >>
   :> [x |-> << 230, 15, 206, 147, 181, 158, 158, 197, 48, 17, 170, 188, 33, 194, 62, 151,
                178, 163, 19, 105, 184, 122, 90, 233, 196, 78, 232, 158, 42, 109, 236, 10 >>,
       y |-> << 8, 28, 175, 140, 102, 26, 106, 109, 98, 70, 96, 203, 10, 134, 200, 239,
                237, 105, 118, 225, 187, 45, 192, 244, 30, 12, 211, 48, 150, 158, 148, 14 >>] )
  @@
  (   << 255, 255, 255, 255, 255, 255, 255, 255, 255, 255, 255, 255, 255, 255, 255, 254,
         186, 174, 220, 230, 175, 72, 160, 59, 191, 210, 94, 140, 208, 54, 65, 50 >>
   :> [x |-> << 215, 146, 77, 79, 125, 67, 234, 150, 90, 70, 90, 227, 9, 95, 244, 17,
                49, 229, 148, 111, 60, 133, 247, 158, 68, 173, 188, 248, 226, 126, 8, 14 >>,
       y |-> << 167, 225, 215, 141, 87, 147, 141, 89, 124, 123, 209, 61, 215, 51, 146, 16,
                21, 191, 80, 212, 39, 105, 44, 90, 58, 251, 35, 95, 9, 93, 144, 215 >>] )
  @@
  (   << 255, 255, 255, 255, 255, 255, 255, 255, 255, 255, 255, 255, 255, 255, 255, 254,
         186, 174, 220, 230, 175, 72, 160, 59, 191, 210, 94, 140, 208, 54, 65, 51 >>
   :> [x |-> << 73, 159, 223, 158, 137, 94, 113, 156, 253, 100, 230, 127, 7, 211, 142, 50,
                38, 170, 123, 99, 103, 137, 73, 230, 228, 155, 36, 26, 96, 232, 35, 228 >>,
       y |-> << 53, 61, 9, 59, 74, 177, 122, 174, 111, 15, 187, 27, 88, 76, 43, 155,
                185, 189, 134, 61, 133, 192, 106, 67, 57, 160, 191, 42, 252, 94, 188, 212 >>] )
  @@
  (   << 255, 255, 255, 255, 255, 255, 255, 255, 255, 255, 255, 255, 255, 255, 255, 254,
         186, 174, 220, 230, 175, 72, 160, 59, 191, 210, 94, 140, 208, 54, 65, 52 >>
   :> [x |-> << 242, 135, 115, 194, 217, 117, 40, 139, 199, 209, 210, 5, 195, 116, 134, 81,
                176, 117, 251, 198, 97, 14, 88, 205, 222, 237, 223, 143, 25, 64, 90, 168 >>,
       y |-> << 245, 79, 111, 209, 114, 119, 245, 118, 138, 125, 237, 20, 154, 50, 80, 184,
                197, 229, 249, 37, 173, 224, 86, 224, 214, 74, 52, 172, 36, 252, 14, 174 >>] )
  @@
  (   << 255, 255, 255, 255, 255, 255, 255, 255, 255, 255, 255, 255, 255, 255, 255, 254,
         186, 174, 220, 230, 175, 72, 160, 59, 191, 210, 94, 140, 208, 54, 65, 53 >>
   :> [x |-> << 208, 17, 21, 213, 72, 231, 86, 27, 21, 195, 143, 0, 77, 115, 70, 51,
                104, 124, 244, 65, 150, 32, 9, 91, 197, 176, 244, 112, 112, 175, 232, 90 >>,
       y |-> << 86, 12, 176, 2, 55, 234, 31, 40, 87, 73, 186, 200, 30, 132, 39, 234,
                134, 220, 115, 162, 38, 87, 146, 173, 148, 250, 228, 235, 11, 249, 217, 8 >>] )
  @@
  (   << 255, 255, 255, 255, 255, 255, 255, 255, 255, 255, 255, 255, 255, 255, 255, 254,
         186, 174, 220, 230, 175, 72, 160, 59, 191, 210, 94, 140, 208, 54, 65, 54 >>
   :> [x |-> << 119, 74, 231, 248, 88, 169, 65, 30, 94, 244, 36, 107, 112, 198, 90, 172,
                86, 73, 152, 11, 229, 193, 120, 145, 187, 236, 23, 137, 93, 160, 8, 203 >>,
       y |-> << 38, 123, 95, 205, 20, 148, 161, 230, 253, 188, 34, 169, 40, 72, 76, 154,
                200, 210, 78, 29, 32, 6, 41, 87, 207, 226, 139, 53, 54, 172, 54, 20 >>] )
  @@
  (   << 255, 255, 255, 255, 255, 255, 255, 255, 255, 255, 255, 255, 255, 255, 255, 254,
         186, 174, 220, 230, 175, 72, 160, 59, 191, 210, 94, 140, 208, 54, 65, 55 >>
   :> [x |-> << 160, 67, 77, 158, 71, 243, 200, 98, 53, 71, 124, 123, 26, 230, 174, 93,
                52, 66, 212, 155, 25, 67, 194, 183, 82, 166, 142, 42, 71, 226, 71, 199 >>,
       y |-> << 118, 197, 69, 189, 171, 230, 67, 216, 92, 73, 56, 25, 108, 93, 179, 150,
                144, 134, 179, 209, 39, 136, 94, 166, 195, 65, 26, 195, 252, 140, 147, 88 >>] )
  @@
  (   << 255, 255, 255, 255, 255, 255, 255, 255, 255, 255, 255, 255, 255, 255, 255, 254,
         186, 174, 220, 230, 175, 72, 160, 59, 191, 210, 94, 140, 208, 54, 65, 56 >>
   :> [x |-> << 172, 212, 132, 226, 240, 199, 246, 83, 9, 173, 23, 138, 159, 85, 154, 189,
                224, 151, 150, 151, 76, 87, 231, 20, 195, 95, 17, 13, 252, 39, 204, 190 >>,
       y |-> << 51, 204, 118, 222, 79, 88, 38, 2, 155, 199, 246, 142, 137, 196, 158, 22,
                82, 39, 119, 91, 200, 160, 113, 240, 250, 51, 217, 212, 57, 176, 95, 248 >>] )
  @@
  (   << 255, 255, 255, 255, 255, 255, 255, 255, 255, 255, 255, 255, 255, 255, 255, 254,
         186, 174, 220, 230, 175, 72, 160, 59, 191, 210, 94, 140, 208, 54, 65, 57 >>
   :> [x |-> << 47, 1, 229, 225, 92, 202, 53, 29, 175, 243, 132, 63, 183, 15, 60, 47,
                10, 27, 221, 5, 229, 175, 136, 138, 103, 120, 78, 243, 225, 10, 42, 1 >>,
       y |-> << 163, 178, 87, 88, 190, 172, 102, 182, 214, 194, 247, 213, 236, 210, 236, 75,
                61, 29, 236, 41, 69, 164, 137, 232, 74, 37, 211, 71, 147, 66, 19, 43 >>] )
  @@
  (   << 255, 255, 255, 255, 255, 255, 255, 255, 255, 255, 255, 255, 255, 255, 255, 254,
         186, 174, 220, 230, 175, 72, 160, 59, 191, 210, 94, 140, 208, 54, 65, 58 >>
   :> [x |-> << 92, 189, 240, 100, 110, 93, 180, 234, 163, 152, 243, 101, 242, 234, 122, 14,
                61, 65, 155, 126, 3, 48, 227, 156, 233, 43, 221, 237, 202, 196, 249, 188 >>,
       y |-> << 149, 20, 53, 191, 69, 218, 166, 159, 92, 232, 114, 146, 121, 229, 171, 36,
                87, 236, 47, 71, 236, 2, 24, 74, 90, 247, 217, 214, 247, 141, 151, 85 >>] )
  @@
  (   << 255, 255, 255, 255, 255, 255, 255, 255, 255, 255, 255, 255, 255, 255, 255, 254,
         186, 174, 220, 230, 175, 72, 160, 59, 191, 210, 94, 140, 208, 54, 65, 59 >>
   :> [x |-> << 255, 249, 123, 213, 117, 94, 238, 164, 32, 69, 58, 20, 53, 82, 53, 211,
                130, 246, 71, 47, 133, 104, 161, 139, 47, 5, 122, 20, 96, 41, 117, 86 >>,
       y |-> << 81, 237, 136, 133, 83, 4, 73, 223, 12, 65, 105, 254, 128, 186, 58, 159,
                33, 127, 15, 9, 174, 112, 27, 95, 195, 120, 243, 200, 79, 138, 9, 152 >>] )
  @@
  (   << 255, 255, 255, 255, 255, 255, 255, 255, 255, 255, 255, 255, 255, 255, 255, 254,
         186, 174, 220, 230, 175, 72, 160, 59, 191, 210, 94, 140, 208, 54, 65, 60 >>
   :> [x |-> << 47, 139, 222, 77, 26, 7, 32, 147, 85, 180, 167, 37, 10, 92, 81, 40,
                232, 139, 132, 189, 220, 97, 154, 183, 203, 168, 213, 105, 178, 64, 239, 228 >>,
       y |-> << 39, 83, 221, 217, 201, 26, 28, 41, 43, 36, 86, 34, 89, 54, 59, 217,
                8, 119, 216, 228, 84, 242, 151, 191, 35, 87, 130, 196, 89, 83, 153, 89 >>] )
  @@
  (   << 255, 255, 255, 255, 255, 255, 255, 255, 255, 255, 255, 255, 255, 255, 255, 254,
         186, 174, 220, 230, 175, 72, 160, 59, 191, 210, 94, 140, 208, 54, 65, 61 >>
   :> [x |-> << 228, 147, 219, 241, 193, 13, 128, 243, 88, 30, 73, 4, 147, 11, 20, 4,
                204, 108, 19, 144, 14, 224, 117, 132, 116, 250, 148, 171, 232, 196, 205, 19 >>,
       y |-> << 174, 18, 102, 193, 95, 43, 170, 72, 169, 189, 29, 246, 113, 90, 235, 183,
                38, 152, 81, 204, 64, 66, 1, 191, 48, 22, 132, 34, 184, 140, 99, 13 >>] )
  @@
  (   << 255, 255, 255, 255, 255, 255, 255, 255, 255, 255, 255, 255, 255, 255, 255, 254,
         186, 174, 220, 230, 175, 72, 160, 59, 191, 210, 94, 140, 208, 54, 65, 62 >>
   :> [x |-> << 249, 48, 138, 1, 146, 88, 195, 16, 73, 52, 79, 133, 248, 157, 82, 41,
                181, 49, 200, 69, 131, 111, 153, 176, 134, 1, 241, 19, 188, 224, 54, 249 >>,
       y |-> << 199, 112, 132, 240, 156, 210, 23, 235, 240, 28, 200, 25, 213, 200, 12, 169,
                154, 255, 86, 102, 203, 61, 220, 228, 147, 70, 2, 137, 123, 71, 21, 189 >>] )
  @@
  (   << 255, 255, 255, 255, 255, 255, 255, 255, 255, 255, 255, 255, 255, 255, 255, 254,
         186, 174, 220, 230, 175, 72, 160, 59, 191, 210, 94, 140, 208, 54, 65, 63 >>
   :> [x |-> << 198, 4, 127, 148, 65, 237, 125, 109, 48, 69, 64, 110, 149, 192, 124, 216,
                92, 119, 142, 75, 140, 239, 60, 167, 171, 172, 9, 185, 92, 112, 158, 229 >>,
       y |-> << 229, 30, 151, 1, 89, 194, 60, 198, 92, 58, 123, 230, 185, 147, 21, 17,
                8, 9, 205, 154, 205, 153, 47, 30, 220, 155, 206, 85, 175, 48, 23, 5 >>] )
  @@
  (   << 255, 255, 255, 255, 255, 255, 255, 255, 255, 255, 255, 255, 255, 255, 255, 254,
         186, 174, 220, 230, 175, 72, 160, 59, 191, 210, 94, 140, 208, 54, 65, 64 >>
   :> [x |-> << 121, 190, 102, 126, 249, 220, 187, 172, 85, 160, 98, 149, 206, 135, 11, 7,
                2, 155, 252, 219, 45, 206, 40, 217, 89, 242, 129, 91, 22, 248, 23, 152 >>,
       y |-> << 183, 197, 37, 136, 217, 92, 59, 154, 162, 91, 4, 3, 241, 238, 247, 87,
                2, 232, 75, 183, 89, 122, 171, 230, 99, 184, 47, 111, 4, 239, 39, 119 >>] )

\* whether the table above agrees with ecmult_gen at k
KnownPointAgrees(k) == KnownPoints[k] = ecmult_gen(k)

\* The point of a scalar: seckey * G
PointOf(seckey) == Known(KnownPoints, seckey, ecmult_gen(seckey))

\* libsecp256k1 secp256k1_ec_seckey_verify: 1 iff the scalar is non-zero and
\* does not overflow the group order
secp256k1_ec_seckey_verify(seckey) ==
  /\ \E i \in 1..32 : seckey[i] # 0
  /\ \E i \in 1..32 :
       /\ seckey[i] < SECP256K1_N[i]
       /\ \A j \in 1..(i - 1) : seckey[j] = SECP256K1_N[j]

\* secp256k1_ec_pubkey_create: fails (0) on an invalid scalar, and the
\* pubkey is zeroed
secp256k1_ec_pubkey_create(seckey) ==
  IF secp256k1_ec_seckey_verify(seckey)
  THEN [ok |-> TRUE, pubkey |-> PointOf(seckey)]
  ELSE [ok |-> FALSE, pubkey |-> ZeroPubkey]

\* secp256k1_ec_pubkey_serialize: the bytes written and their count
secp256k1_ec_pubkey_serialize(pubkey, compressed) ==
  IF compressed
  THEN [ok |-> TRUE, outputLen |-> 33,
        output |-> << 2 + (pubkey.y[32] % 2) >> \o pubkey.x]
  ELSE [ok |-> TRUE, outputLen |-> 65,
        output |-> << 4 >> \o pubkey.x \o pubkey.y]

\* eckey_pubkey_parse of the encoded keys the calls below are made with and
\* of the encoded keys of the repository's tests
KnownParses ==
  (   << 2, 18, 18, 18, 18, 18, 18, 18, 18, 18, 18, 18, 18, 18, 18, 18,
         18, 18, 18, 18, 18, 18, 18, 18, 18, 18, 18, 18, 18, 18, 18, 18,
         18 >>
   :> [ok |-> TRUE, pubkey |->
      [x |-> << 18, 18, 18, 18, 18, 18, 18, 18, 18, 18, 18, 18, 18, 18, 18, 18,
                18, 18, 18, 18, 18, 18, 18, 18, 18, 18, 18, 18, 18, 18, 18, 18 >>,
       y |-> << 53, 142, 4, 62, 18, 94, 169, 195, 49, 239, 164, 222, 54, 171, 136, 80,
                58, 126, 169, 45, 252, 159, 142, 33, 243, 68, 215, 246, 191, 42, 202, 148 >>]] )
  @@
  (   << 2, 121, 190, 102, 0, 249, 220, 187, 172, 85, 160, 98, 149, 206, 135, 11,
         7, 2, 155, 252, 219, 45, 206, 40, 217, 89, 242, 129, 91, 22, 248, 23,
         152 >>
   :> [ok |-> TRUE, pubkey |->
      [x |-> << 121, 190, 102, 0, 249, 220, 187, 172, 85, 160, 98, 149, 206, 135, 11, 7,
                2, 155, 252, 219, 45, 206, 40, 217, 89, 242, 129, 91, 22, 248, 23, 152 >>,
       y |-> << 255, 22, 214, 183, 175, 190, 183, 119, 159, 213, 162, 183, 69, 26, 194, 56,
                16, 200, 123, 34, 62, 155, 9, 204, 136, 193, 240, 4, 178, 54, 219, 130 >>]] )
  @@
  (   << 2, 121, 190, 102, 126, 0, 220, 187, 172, 85, 160, 98, 149, 206, 135, 11,
         7, 2, 155, 252, 219, 45, 206, 40, 217, 89, 242, 129, 91, 22, 248, 23,
         152 >>
   :> [ok |-> FALSE, pubkey |-> ZeroPubkey] )
  @@
  (   << 2, 121, 190, 102, 126, 249, 220, 187, 172, 85, 160, 98, 149, 206, 135, 11,
         7, 2, 155, 252, 219, 45, 206, 40, 217, 89, 242, 129, 91, 22, 248, 23,
         152 >>
   :> [ok |-> TRUE, pubkey |->
      [x |-> << 121, 190, 102, 126, 249, 220, 187, 172, 85, 160, 98, 149, 206, 135, 11, 7,
                2, 155, 252, 219, 45, 206, 40, 217, 89, 242, 129, 91, 22, 248, 23, 152 >>,
       y |-> << 72, 58, 218, 119, 38, 163, 196, 101, 93, 164, 251, 252, 14, 17, 8, 168,
                253, 23, 180, 72, 166, 133, 84, 25, 156, 71, 208, 143, 251, 16, 212, 184 >>]] )
  @@
  (   << 2, 198, 4, 127, 148, 65, 237, 125, 109, 48, 69, 64, 110, 149, 192, 124,
         216, 92, 119, 142, 75, 140, 239, 60, 167, 171, 172, 9, 185, 92, 112, 158,
         229 >>
   :> [ok |-> TRUE, pubkey |->
      [x |-> << 198, 4, 127, 148, 65, 237, 125, 109, 48, 69, 64, 110, 149, 192, 124, 216,
                92, 119, 142, 75, 140, 239, 60, 167, 171, 172, 9, 185, 92, 112, 158, 229 >>,
       y |-> << 26, 225, 104, 254, 166, 61, 195, 57, 163, 197, 132, 25, 70, 108, 234, 238,
                247, 246, 50, 101, 50, 102, 208, 225, 35, 100, 49, 169, 80, 207, 229, 42 >>]] )
  @@
  (   << 2, 255, 255, 255, 255, 255, 255, 255, 255, 255, 255, 255, 255, 255, 255, 255,
         255, 255, 255, 255, 255, 255, 255, 255, 255, 255, 255, 255, 255, 255, 255, 255,
         255 >>
   :> [ok |-> FALSE, pubkey |-> ZeroPubkey] )
  @@
  (   << 3, 116, 68, 50, 88, 73, 46, 83, 213, 185, 126, 213, 232, 23, 78, 197,
         162, 141, 70, 204, 211, 109, 127, 11, 5, 84, 162, 18, 155, 213, 149, 207,
         53 >>
   :> [ok |-> TRUE, pubkey |->
      [x |-> << 116, 68, 50, 88, 73, 46, 83, 213, 185, 126, 213, 232, 23, 78, 197, 162,
                141, 70, 204, 211, 109, 127, 11, 5, 84, 162, 18, 155, 213, 149, 207, 53 >>,
       y |-> << 99, 107, 74, 37, 48, 30, 128, 241, 119, 167, 69, 166, 73, 147, 218, 70,
                238, 207, 216, 216, 210, 240, 226, 123, 129, 140, 132, 223, 40, 11, 225, 25 >>]] )
  @@
  (   << 3, 121, 190, 102, 126, 249, 220, 187, 172, 85, 160, 98, 149, 206, 135, 11,
         7, 2, 155, 252, 219, 45, 206, 40, 217, 89, 242, 129, 91, 22, 248, 23,
         152 >>
   :> [ok |-> TRUE, pubkey |->
      [x |-> << 121, 190, 102, 126, 249, 220, 187, 172, 85, 160, 98, 149, 206, 135, 11, 7,
                2, 155, 252, 219, 45, 206, 40, 217, 89, 242, 129, 91, 22, 248, 23, 152 >>,
       y |-> << 183, 197, 37, 136, 217, 92, 59, 154, 162, 91, 4, 3, 241, 238, 247, 87,
                2, 232, 75, 183, 89, 122, 171, 230, 99, 184, 47, 111, 4, 239, 39, 119 >>]] )
  @@
  (   << 4, 121, 190, 102, 126, 249, 220, 187, 172, 85, 160, 98, 149, 206, 135, 11,
         7, 2, 155, 252, 219, 45, 206, 40, 217, 89, 242, 129, 91, 22, 248, 23,
         152 >>
   :> [ok |-> FALSE, pubkey |-> ZeroPubkey] )
  @@
  (   << 5, 121, 190, 102, 126, 249, 220, 187, 172, 85, 160, 98, 149, 206, 135, 11,
         7, 2, 155, 252, 219, 45, 206, 40, 217, 89, 242, 129, 91, 22, 248, 23,
         152 >>
   :> [ok |-> FALSE, pubkey |-> ZeroPubkey] )
  @@
  (   << 18, 18, 18, 18, 18, 18, 18, 18, 18, 18, 18, 18, 18, 18, 18, 18,
         18, 18, 18, 18, 18, 18, 18, 18, 18, 18, 18, 18, 18, 18, 18, 18,
         18 >>
   :> [ok |-> FALSE, pubkey |-> ZeroPubkey] )
  @@
  (   << 2, 58, 68, 61, 131, 129, 166, 121, 138, 112, 198, 255, 147, 4, 189, 200,
         203, 1, 99, 194, 50, 17, 209, 22, 40, 250, 229, 46, 249, 224, 220, 161,
         26, 0, 28, 240, 102, 213, 106, 129, 86, 252, 32, 28, 213, 223, 138, 54,
         239, 105, 78, 236, 210, 88, 144, 63, 202, 112, 134, 193, 250, 231, 68, 30,
         29 >>
   :> [ok |-> FALSE, pubkey |-> ZeroPubkey] )
  @@
  (   << 2, 121, 190, 102, 126, 249, 220, 187, 172, 85, 160, 98, 149, 206, 135, 11,
         7, 2, 155, 252, 219, 45, 206, 40, 217, 89, 242, 129, 91, 22, 248, 23,
         152, 72, 58, 218, 119, 38, 163, 196, 101, 93, 164, 251, 252, 14, 17, 8,
         168, 253, 23, 180, 72, 166, 133, 84, 25, 156, 71, 208, 143, 251, 16, 212,
         184 >>
   :> [ok |-> FALSE, pubkey |-> ZeroPubkey] )
  @@
  (   << 4, 58, 68, 61, 131, 129, 166, 121, 138, 112, 198, 255, 147, 4, 189, 200,
         203, 1, 99, 194, 50, 17, 209, 22, 40, 250, 229, 46, 249, 224, 220, 161,
         26, 0, 28, 240, 102, 213, 106, 129, 86, 252, 32, 28, 213, 223, 138, 54,
         239, 105, 78, 236, 210, 88, 144, 63, 202, 112, 134, 193, 250, 231, 68, 30,
         29 >>
   :> [ok |-> TRUE, pubkey |->
      [x |-> << 58, 68, 61, 131, 129, 166, 121, 138, 112, 198, 255, 147, 4, 189, 200, 203,
                1, 99, 194, 50, 17, 209, 22, 40, 250, 229, 46, 249, 224, 220, 161, 26 >>,
       y |-> << 0, 28, 240, 102, 213, 106, 129, 86, 252, 32, 28, 213, 223, 138, 54, 239,
                105, 78, 236, 210, 88, 144, 63, 202, 112, 134, 193, 250, 231, 68, 30, 29 >>]] )
  @@
  (   << 4, 79, 53, 91, 220, 183, 204, 10, 247, 40, 239, 60, 206, 185, 97, 93,
         144, 104, 75, 181, 178, 202, 95, 133, 154, 176, 240, 183, 4, 7, 88, 113,
         170, 56, 91, 107, 27, 142, 173, 128, 156, 166, 116, 84, 217, 104, 63, 207,
         43, 160, 52, 86, 214, 254, 44, 74, 190, 43, 7, 240, 251, 219, 178, 241,
         193 >>
   :> [ok |-> TRUE, pubkey |->
      [x |-> << 79, 53, 91, 220, 183, 204, 10, 247, 40, 239, 60, 206, 185, 97, 93, 144,
                104, 75, 181, 178, 202, 95, 133, 154, 176, 240, 183, 4, 7, 88, 113, 170 >>,
       y |-> << 56, 91, 107, 27, 142, 173, 128, 156, 166, 116, 84, 217, 104, 63, 207, 43,
                160, 52, 86, 214, 254, 44, 74, 190, 43, 7, 240, 251, 219, 178, 241, 193 >>]] )
  @@
  (   << 4, 116, 68, 50, 88, 73, 46, 83, 213, 185, 126, 213, 232, 23, 78, 197,
         162, 141, 70, 204, 211, 109, 127, 11, 5, 84, 162, 18, 155, 213, 149, 207,
         53, 99, 107, 74, 37, 48, 30, 128, 241, 119, 167, 69, 166, 73, 147, 218,
         70, 238, 207, 216, 216, 210, 240, 226, 123, 129, 140, 132, 223, 40, 11, 225,
         0 >>
   :> [ok |-> FALSE, pubkey |-> ZeroPubkey] )
  @@
  (   << 4, 116, 68, 50, 88, 73, 46, 83, 213, 185, 126, 213, 232, 23, 78, 197,
         162, 141, 70, 204, 211, 109, 127, 11, 5, 84, 162, 18, 155, 213, 149, 207,
         53, 99, 107, 74, 37, 48, 30, 128, 241, 119, 167, 69, 166, 73, 147, 218,
         70, 238, 207, 216, 216, 210, 240, 226, 123, 129, 140, 132, 223, 40, 11, 225,
         25 >>
   :> [ok |-> TRUE, pubkey |->
      [x |-> << 116, 68, 50, 88, 73, 46, 83, 213, 185, 126, 213, 232, 23, 78, 197, 162,
                141, 70, 204, 211, 109, 127, 11, 5, 84, 162, 18, 155, 213, 149, 207, 53 >>,
       y |-> << 99, 107, 74, 37, 48, 30, 128, 241, 119, 167, 69, 166, 73, 147, 218, 70,
                238, 207, 216, 216, 210, 240, 226, 123, 129, 140, 132, 223, 40, 11, 225, 25 >>]] )
  @@
  (   << 4, 116, 68, 50, 88, 73, 46, 83, 213, 185, 126, 213, 232, 23, 78, 197,
         162, 141, 70, 204, 211, 109, 127, 11, 5, 84, 162, 18, 155, 213, 149, 207,
         53, 99, 107, 74, 37, 48, 30, 128, 241, 119, 167, 69, 166, 73, 147, 218,
         70, 238, 207, 216, 216, 210, 240, 226, 123, 129, 140, 132, 223, 40, 11, 225,
         170 >>
   :> [ok |-> FALSE, pubkey |-> ZeroPubkey] )
  @@
  (   << 4, 121, 190, 102, 126, 249, 220, 187, 172, 85, 160, 98, 149, 206, 135, 11,
         7, 2, 155, 252, 219, 45, 206, 40, 217, 89, 242, 129, 91, 22, 248, 23,
         152, 72, 58, 218, 119, 38, 163, 0, 101, 93, 164, 251, 252, 14, 17, 8,
         168, 253, 23, 180, 72, 166, 133, 84, 25, 156, 71, 208, 143, 251, 16, 212,
         184 >>
   :> [ok |-> FALSE, pubkey |-> ZeroPubkey] )
  @@
  (   << 4, 121, 190, 102, 126, 249, 220, 187, 172, 85, 160, 98, 149, 206, 135, 11,
         7, 2, 155, 252, 219, 45, 206, 40, 217, 89, 242, 129, 91, 22, 248, 23,
         152, 72, 58, 218, 119, 38, 163, 196, 101, 93, 164, 251, 252, 14, 17, 8,
         168, 253, 23, 180, 72, 166, 133, 84, 25, 156, 71, 208, 143, 251, 16, 212,
         0 >>
   :> [ok |-> FALSE, pubkey |-> ZeroPubkey] )
  @@
  (   << 4, 121, 190, 102, 126, 249, 220, 187, 172, 85, 160, 98, 149, 206, 135, 11,
         7, 2, 155, 252, 219, 45, 206, 40, 217, 89, 242, 129, 91, 22, 248, 23,
         152, 72, 58, 218, 119, 38, 163, 196, 101, 93, 164, 251, 252, 14, 17, 8,
         168, 253, 23, 180, 72, 166, 133, 84, 25, 156, 71, 208, 143, 251, 16, 212,
         170 >>
   :> [ok |-> FALSE, pubkey |-> ZeroPubkey] )
  @@
  (   << 4, 121, 190, 102, 126, 249, 220, 187, 172, 85, 160, 98, 149, 206, 135, 11,
         7, 2, 155, 252, 219, 45, 206, 40, 217, 89, 242, 129, 91, 22, 248, 23,
         152, 72, 58, 218, 119, 38, 163, 196, 101, 93, 164, 251, 252, 14, 17, 8,
         168, 253, 23, 180, 72, 166, 133, 84, 25, 156, 71, 208, 143, 251, 16, 212,
         184 >>
   :> [ok |-> TRUE, pubkey |->
      [x |-> << 121, 190, 102, 126, 249, 220, 187, 172, 85, 160, 98, 149, 206, 135, 11, 7,
                2, 155, 252, 219, 45, 206, 40, 217, 89, 242, 129, 91, 22, 248, 23, 152 >>,
       y |-> << 72, 58, 218, 119, 38, 163, 196, 101, 93, 164, 251, 252, 14, 17, 8, 168,
                253, 23, 180, 72, 166, 133, 84, 25, 156, 71, 208, 143, 251, 16, 212, 184 >>]] )
  @@
  (   << 4, 121, 190, 102, 126, 249, 220, 187, 172, 85, 160, 98, 149, 206, 135, 11,
         7, 2, 155, 252, 219, 45, 206, 40, 217, 89, 242, 129, 91, 22, 248, 23,
         152, 183, 197, 37, 136, 217, 92, 59, 154, 162, 91, 4, 3, 241, 238, 247,
         87, 2, 232, 75, 183, 89, 122, 171, 230, 99, 184, 47, 111, 4, 239, 39,
         0 >>
   :> [ok |-> FALSE, pubkey |-> ZeroPubkey] )
  @@
  (   << 4, 121, 190, 102, 126, 249, 220, 187, 172, 85, 160, 98, 149, 206, 135, 11,
         7, 2, 155, 252, 219, 45, 206, 40, 217, 89, 242, 129, 91, 22, 248, 23,
         152, 183, 197, 37, 136, 217, 92, 59, 154, 162, 91, 4, 3, 241, 238, 247,
         87, 2, 232, 75, 183, 89, 122, 171, 230, 99, 184, 47, 111, 4, 239, 39,
         119 >>
   :> [ok |-> TRUE, pubkey |->
      [x |-> << 121, 190, 102, 126, 249, 220, 187, 172, 85, 160, 98, 149, 206, 135, 11, 7,
                2, 155, 252, 219, 45, 206, 40, 217, 89, 242, 129, 91, 22, 248, 23, 152 >>,
       y |-> << 183, 197, 37, 136, 217, 92, 59, 154, 162, 91, 4, 3, 241, 238, 247, 87,
                2, 232, 75, 183, 89, 122, 171, 230, 99, 184, 47, 111, 4, 239, 39, 119 >>]] )
  @@
  (   << 4, 121, 190, 102, 126, 249, 220, 187, 172, 85, 160, 98, 149, 206, 135, 11,
         7, 2, 155, 252, 219, 45, 206, 40, 217, 89, 242, 129, 91, 22, 248, 23,
         152, 183, 197, 37, 136, 217, 92, 59, 154, 162, 91, 4, 3, 241, 238, 247,
         87, 2, 232, 75, 183, 89, 122, 171, 230, 99, 184, 47, 111, 4, 239, 39,
         170 >>
   :> [ok |-> FALSE, pubkey |-> ZeroPubkey] )
  @@
  (   << 4, 130, 130, 38, 50, 18, 198, 9, 217, 234, 42, 110, 62, 23, 45, 226,
         56, 216, 195, 156, 171, 213, 172, 28, 161, 6, 70, 226, 63, 213, 245, 21,
         8, 17, 248, 168, 9, 133, 87, 223, 228, 94, 130, 86, 232, 48, 182, 10,
         206, 98, 214, 19, 172, 47, 123, 23, 190, 211, 27, 110, 175, 246, 226, 108,
         0 >>
   :> [ok |-> FALSE, pubkey |-> ZeroPubkey] )
  @@
  (   << 4, 130, 130, 38, 50, 18, 198, 9, 217, 234, 42, 110, 62, 23, 45, 226,
         56, 216, 195, 156, 171, 213, 172, 28, 161, 6, 70, 226, 63, 213, 245, 21,
         8, 17, 248, 168, 9, 133, 87, 223, 228, 94, 130, 86, 232, 48, 182, 10,
         206, 98, 214, 19, 172, 47, 123, 23, 190, 211, 27, 110, 175, 246, 226, 108,
         170 >>
   :> [ok |-> FALSE, pubkey |-> ZeroPubkey] )
  @@
  (   << 4, 130, 130, 38, 50, 18, 198, 9, 217, 234, 42, 110, 62, 23, 45, 226,
         56, 216, 195, 156, 171, 213, 172, 28, 161, 6, 70, 226, 63, 213, 245, 21,
         8, 17, 248, 168, 9, 133, 87, 223, 228, 94, 130, 86, 232, 48, 182, 10,
         206, 98, 214, 19, 172, 47, 123, 23, 190, 211, 27, 110, 175, 246, 226, 108,
         175 >>
   :> [ok |-> TRUE, pubkey |->
      [x |-> << 130, 130, 38, 50, 18, 198, 9, 217, 234, 42, 110, 62, 23, 45, 226, 56,
                216, 195, 156, 171, 213, 172, 28, 161, 6, 70, 226, 63, 213, 245, 21, 8 >>,
       y |-> << 17, 248, 168, 9, 133, 87, 223, 228, 94, 130, 86, 232, 48, 182, 10, 206,
                98, 214, 19, 172, 47, 123, 23, 190, 211, 27, 110, 175, 246, 226, 108, 175 >>]] )
  @@
  (   << 4, 141, 181, 91, 5, 219, 134, 192, 177, 120, 108, 164, 159, 9, 93, 118,
         52, 76, 158, 96, 86, 178, 240, 39, 1, 167, 231, 243, 194, 10, 171, 253,
         145, 62, 187, 225, 72, 221, 23, 197, 101, 81, 165, 41, 82, 55, 16, 113,
         166, 198, 4, 179, 243, 171, 232, 242, 200, 250, 116, 33, 88, 234, 109, 215,
         0 >>
   :> [ok |-> FALSE, pubkey |-> ZeroPubkey] )
  @@
  (   << 4, 141, 181, 91, 5, 219, 134, 192, 177, 120, 108, 164, 159, 9, 93, 118,
         52, 76, 158, 96, 86, 178, 240, 39, 1, 167, 231, 243, 194, 10, 171, 253,
         145, 62, 187, 225, 72, 221, 23, 197, 101, 81, 165, 41, 82, 55, 16, 113,
         166, 198, 4, 179, 243, 171, 232, 242, 200, 250, 116, 33, 88, 234, 109, 215,
         170 >>
   :> [ok |-> FALSE, pubkey |-> ZeroPubkey] )
  @@
  (   << 4, 141, 181, 91, 5, 219, 134, 192, 177, 120, 108, 164, 159, 9, 93, 118,
         52, 76, 158, 96, 86, 178, 240, 39, 1, 167, 231, 243, 194, 10, 171, 253,
         145, 62, 187, 225, 72, 221, 23, 197, 101, 81, 165, 41, 82, 55, 16, 113,
         166, 198, 4, 179, 243, 171, 232, 242, 200, 250, 116, 33, 88, 234, 109, 215,
         212 >>
   :> [ok |-> TRUE, pubkey |->
      [x |-> << 141, 181, 91, 5, 219, 134, 192, 177, 120, 108, 164, 159, 9, 93, 118, 52,
                76, 158, 96, 86, 178, 240, 39, 1, 167, 231, 243, 194, 10, 171, 253, 145 >>,
       y |-> << 62, 187, 225, 72, 221, 23, 197, 101, 81, 165, 41, 82, 55, 16, 113, 166,
                198, 4, 179, 243, 171, 232, 242, 200, 250, 116, 33, 88, 234, 109, 215, 212 >>]] )
  @@
  (   << 4, 157, 97, 177, 157, 239, 253, 90, 96, 186, 132, 74, 244, 146, 236, 44,
         196, 68, 73, 197, 105, 123, 50, 105, 25, 112, 59, 172, 3, 28, 174, 127,
         96, 157, 97, 177, 157, 239, 253, 90, 96, 186, 132, 74, 244, 146, 236, 44,
         196, 68, 73, 197, 105, 123, 50, 105, 25, 112, 59, 172, 3, 28, 174, 127,
         0 >>
   :> [ok |-> FALSE, pubkey |-> ZeroPubkey] )
  @@
  (   << 4, 157, 97, 177, 157, 239, 253, 90, 96, 186, 132, 74, 244, 146, 236, 44,
         196, 68, 73, 197, 105, 123, 50, 105, 25, 112, 59, 172, 3, 28, 174, 127,
         96, 157, 97, 177, 157, 239, 253, 90, 96, 186, 132, 74, 244, 146, 236, 44,
         196, 68, 73, 197, 105, 123, 50, 105, 25, 112, 59, 172, 3, 28, 174, 127,
         96 >>
   :> [ok |-> FALSE, pubkey |-> ZeroPubkey] )
  @@
  (   << 4, 157, 97, 177, 157, 239, 253, 90, 96, 186, 132, 74, 244, 146, 236, 44,
         196, 68, 73, 197, 105, 123, 50, 105, 25, 112, 59, 172, 3, 28, 174, 127,
         96, 157, 97, 177, 157, 239, 253, 90, 96, 186, 132, 74, 244, 146, 236, 44,
         196, 68, 73, 197, 105, 123, 50, 105, 25, 112, 59, 172, 3, 28, 174, 127,
         170 >>
   :> [ok |-> FALSE, pubkey |-> ZeroPubkey] )
  @@
  (   << 4, 176, 251, 101, 213, 255, 141, 111, 158, 112, 98, 221, 1, 116, 147, 169,
         215, 226, 249, 196, 49, 154, 75, 114, 113, 144, 102, 224, 8, 225, 127, 92,
         253, 137, 108, 124, 18, 174, 245, 232, 52, 68, 97, 95, 188, 50, 239, 143,
         193, 69, 211, 28, 204, 49, 234, 184, 148, 19, 150, 31, 51, 150, 97, 90,
         0 >>
   :> [ok |-> FALSE, pubkey |-> ZeroPubkey] )
  @@
  (   << 4, 176, 251, 101, 213, 255, 141, 111, 158, 112, 98, 221, 1, 116, 147, 169,
         215, 226, 249, 196, 49, 154, 75, 114, 113, 144, 102, 224, 8, 225, 127, 92,
         253, 137, 108, 124, 18, 174, 245, 232, 52, 68, 97, 95, 188, 50, 239, 143,
         193, 69, 211, 28, 204, 49, 234, 184, 148, 19, 150, 31, 51, 150, 97, 90,
         170 >>
   :> [ok |-> FALSE, pubkey |-> ZeroPubkey] )
  @@
  (   << 4, 176, 251, 101, 213, 255, 141, 111, 158, 112, 98, 221, 1, 116, 147, 169,
         215, 226, 249, 196, 49, 154, 75, 114, 113, 144, 102, 224, 8, 225, 127, 92,
         253, 137, 108, 124, 18, 174, 245, 232, 52, 68, 97, 95, 188, 50, 239, 143,
         193, 69, 211, 28, 204, 49, 234, 184, 148, 19, 150, 31, 51, 150, 97, 90,
         246 >>
   :> [ok |-> TRUE, pubkey |->
      [x |-> << 176, 251, 101, 213, 255, 141, 111, 158, 112, 98, 221, 1, 116, 147, 169, 215,
                226, 249, 196, 49, 154, 75, 114, 113, 144, 102, 224, 8, 225, 127, 92, 253 >>,
       y |-> << 137, 108, 124, 18, 174, 245, 232, 52, 68, 97, 95, 188, 50, 239, 143, 193,
                69, 211, 28, 204, 49, 234, 184, 148, 19, 150, 31, 51, 150, 97, 90, 246 >>]] )
  @@
  (   << 4, 178, 55, 144, 164, 43, 230, 62, 27, 37, 26, 214, 201, 79, 222, 240,
         114, 113, 236, 10, 173, 163, 29, 182, 195, 232, 189, 50, 4, 63, 139, 227,
         132, 252, 107, 105, 73, 25, 213, 94, 219, 232, 213, 15, 136, 170, 129, 249,
         69, 23, 240, 4, 244, 20, 158, 203, 88, 209, 10, 71, 61, 235, 25, 136,
         0 >>
   :> [ok |-> FALSE, pubkey |-> ZeroPubkey] )
  @@
  (   << 4, 178, 55, 144, 164, 43, 230, 62, 27, 37, 26, 214, 201, 79, 222, 240,
         114, 113, 236, 10, 173, 163, 29, 182, 195, 232, 189, 50, 4, 63, 139, 227,
         132, 252, 107, 105, 73, 25, 213, 94, 219, 232, 213, 15, 136, 170, 129, 249,
         69, 23, 240, 4, 244, 20, 158, 203, 88, 209, 10, 71, 61, 235, 25, 136,
         14 >>
   :> [ok |-> TRUE, pubkey |->
      [x |-> << 178, 55, 144, 164, 43, 230, 62, 27, 37, 26, 214, 201, 79, 222, 240, 114,
                113, 236, 10, 173, 163, 29, 182, 195, 232, 189, 50, 4, 63, 139, 227, 132 >>,
       y |-> << 252, 107, 105, 73, 25, 213, 94, 219, 232, 213, 15, 136, 170, 129, 249, 69,
                23, 240, 4, 244, 20, 158, 203, 88, 209, 10, 71, 61, 235, 25, 136, 14 >>]] )
  @@
  (   << 4, 178, 55, 144, 164, 43, 230, 62, 27, 37, 26, 214, 201, 79, 222, 240,
         114, 113, 236, 10, 173, 163, 29, 182, 195, 232, 189, 50, 4, 63, 139, 227,
         132, 252, 107, 105, 73, 25, 213, 94, 219, 232, 213, 15, 136, 170, 129, 249,
         69, 23, 240, 4, 244, 20, 158, 203, 88, 209, 10, 71, 61, 235, 25, 136,
         170 >>
   :> [ok |-> FALSE, pubkey |-> ZeroPubkey] )
  @@
  (   << 4, 198, 4, 127, 148, 65, 237, 125, 109, 48, 69, 64, 110, 149, 192, 124,
         216, 92, 119, 142, 75, 140, 239, 60, 167, 171, 172, 9, 185, 92, 112, 158,
         229, 26, 225, 104, 254, 166, 61, 195, 57, 163, 197, 132, 25, 70, 108, 234,
         238, 247, 246, 50, 101, 50, 102, 208, 225, 35, 100, 49, 169, 80, 207, 229,
         0 >>
   :> [ok |-> FALSE, pubkey |-> ZeroPubkey] )
  @@
  (   << 4, 198, 4, 127, 148, 65, 237, 125, 109, 48, 69, 64, 110, 149, 192, 124,
         216, 92, 119, 142, 75, 140, 239, 60, 167, 171, 172, 9, 185, 92, 112, 158,
         229, 26, 225, 104, 254, 166, 61, 195, 57, 163, 197, 132, 25, 70, 108, 234,
         238, 247, 246, 50, 101, 50, 102, 208, 225, 35, 100, 49, 169, 80, 207, 229,
         42 >>
   :> [ok |-> TRUE, pubkey |->
      [x |-> << 198, 4, 127, 148, 65, 237, 125, 109, 48, 69, 64, 110, 149, 192, 124, 216,
                92, 119, 142, 75, 140, 239, 60, 167, 171, 172, 9, 185, 92, 112, 158, 229 >>,
       y |-> << 26, 225, 104, 254, 166, 61, 195, 57, 163, 197, 132, 25, 70, 108, 234, 238,
                247, 246, 50, 101, 50, 102, 208, 225, 35, 100, 49, 169, 80, 207, 229, 42 >>]] )
  @@
  (   << 4, 198, 4, 127, 148, 65, 237, 125, 109, 48, 69, 64, 110, 149, 192, 124,
         216, 92, 119, 142, 75, 140, 239, 60, 167, 171, 172, 9, 185, 92, 112, 158,
         229, 26, 225, 104, 254, 166, 61, 195, 57, 163, 197, 132, 25, 70, 108, 234,
         238, 247, 246, 50, 101, 50, 102, 208, 225, 35, 100, 49, 169, 80, 207, 229,
         170 >>
   :> [ok |-> FALSE, pubkey |-> ZeroPubkey] )
  @@
  (   << 6, 121, 190, 102, 126, 249, 220, 187, 172, 85, 160, 98, 149, 206, 135, 11,
         7, 2, 155, 252, 219, 45, 206, 40, 217, 89, 242, 129, 91, 22, 248, 23,
         152, 72, 58, 218, 119, 38, 163, 196, 101, 93, 164, 251, 252, 14, 17, 8,
         168, 253, 23, 180, 72, 166, 133, 84, 25, 156, 71, 208, 143, 251, 16, 212,
         184 >>
   :> [ok |-> TRUE, pubkey |->
      [x |-> << 121, 190, 102, 126, 249, 220, 187, 172, 85, 160, 98, 149, 206, 135, 11, 7,
                2, 155, 252, 219, 45, 206, 40, 217, 89, 242, 129, 91, 22, 248, 23, 152 >>,
       y |-> << 72, 58, 218, 119, 38, 163, 196, 101, 93, 164, 251, 252, 14, 17, 8, 168,
                253, 23, 180, 72, 166, 133, 84, 25, 156, 71, 208, 143, 251, 16, 212, 184 >>]] )
  @@
  (   << 7, 121, 190, 102, 126, 249, 220, 187, 172, 85, 160, 98, 149, 206, 135, 11,
         7, 2, 155, 252, 219, 45, 206, 40, 217, 89, 242, 129, 91, 22, 248, 23,
         152, 72, 58, 218, 119, 38, 163, 196, 101, 93, 164, 251, 252, 14, 17, 8,
         168, 253, 23, 180, 72, 166, 133, 84, 25, 156, 71, 208, 143, 251, 16, 212,
         184 >>
   :> [ok |-> FALSE, pubkey |-> ZeroPubkey] )
  @@
  (   << 18, 18, 18, 18, 18, 18, 18, 18, 18, 18, 18, 18, 18, 18, 18, 18,
         18, 18, 18, 18, 18, 18, 18, 18, 18, 18, 18, 18, 18, 18, 18, 18,
         18, 18, 18, 18, 18, 18, 18, 18, 18, 18, 18, 18, 18, 18, 18, 18,
         18, 18, 18, 18, 18, 18, 18, 18, 18, 18, 18, 18, 18, 18, 18, 18,
         18 >>
   :> [ok |-> FALSE, pubkey |-> ZeroPubkey] )

\* whether the table above agrees with eckey_pubkey_parse at pub
KnownParseAgrees(pub) == KnownParses[pub] = eckey_pubkey_parse(pub, Len(pub))

\* secp256k1_ec_pubkey_parse: 33 bytes with prefix 02/03, or 65 bytes with
\* prefix 04 (06/07 hybrid, parity checked); the point must be on the curve;
\* the pubkey is zeroed when the parse fails
secp256k1_ec_pubkey_parse(input, inputlen) ==
  IF inputlen \in {33, 65}
  THEN Known(KnownParses, input, eckey_pubkey_parse(input, inputlen))
  ELSE [ok |-> FALSE, pubkey |-> ZeroPubkey]

\* ------------------------------------------------------------------------
\* Ed25519: -x^2 + y^2 = 1 + d x^2 y^2 over 2^255 - 19
\* ------------------------------------------------------------------------
ed25519_fe == fe_field(255, << 19 >>)

ed25519_d == mp_from_bytes(<< 163, 120, 89, 19, 202, 77, 235, 117, 171, 216, 65, 65, 77, 10, 112, 0, 152, 232, 121, 119, 121, 64, 199, 140, 115, 254, 111, 43, 238, 108, 3, 82 >>)

\* the base point: y = 4/5, x even
ed25519_B ==
  [x |-> mp_from_bytes(<< 26, 213, 37, 143, 96, 45, 86, 201, 178, 167, 37, 149, 96, 199, 44, 105, 92, 220, 214, 253, 49, 226, 164, 192, 254, 83, 110, 205, 211, 54, 105, 33 >>),
   y |-> mp_from_bytes(<< 88, 102, 102, 102, 102, 102, 102, 102, 102, 102, 102, 102, 102, 102, 102, 102, 102, 102, 102, 102, 102, 102, 102, 102, 102, 102, 102, 102, 102, 102, 102, 102 >>)]

ge_p3_0 == [X |-> fe_zero, Y |-> fe_one, Z |-> fe_one, T |-> fe_zero]

\* P + Q in extended coordinates; the same formulas double a point
ge_add(P, Q, f) ==
  With([A |-> fe_mul(fe_sub(P.Y, P.X, f), fe_sub(Q.Y, Q.X, f), f),
        B |-> fe_mul(fe_add(P.Y, P.X, f), fe_add(Q.Y, Q.X, f), f),
        C |-> fe_mul(fe_mul(P.T, Q.T, f), fe_mul_int(ed25519_d, 2, f), f),
        D |-> fe_mul_int(fe_mul(P.Z, Q.Z, f), 2, f)], LAMBDA s :
  With([E |-> fe_sub(s.B, s.A, f), F |-> fe_sub(s.D, s.C, f),
        G |-> fe_add(s.D, s.C, f), H |-> fe_add(s.B, s.A, f)], LAMBDA t :
    [X |-> fe_mul(t.E, t.F, f), Y |-> fe_mul(t.G, t.H, f),
     Z |-> fe_mul(t.F, t.G, f), T |-> fe_mul(t.E, t.H, f)]))

\* the bits hi - 1 .. lo of the scalar k, most significant first
RECURSIVE ge_scalarmult_bits(_, _, _, _, _, _)
ge_scalarmult_bits(R, Q, k, lo, hi, f) ==
  IF hi <= lo THEN R
  ELSE IF lo + 1 = hi
  THEN With(ge_add(R, R, f), LAMBDA D : IF mp_bit(k, lo) = 1 THEN ge_add(D, Q, f) ELSE D)
  ELSE With(ge_scalarmult_bits(R, Q, k, (lo + hi) \div 2, hi, f),
            LAMBDA half : ge_scalarmult_bits(half, Q, k, lo, (lo + hi) \div 2, f))

\* ge_p3_tobytes: y, little-endian, with the parity of x in the top bit
ge_p3_tobytes(P, f) ==
  With(fe_inv(P.Z, f), LAMBDA zi :
  With([x |-> fe_mul(P.X, zi, f), y |-> mp_to_bytes(fe_mul(P.Y, zi, f), 32)], LAMBDA A :
    [A.y EXCEPT ![32] = @ + 128 * (A.x[1] % 2)]))

\* ge_scalarmult_base: a * B, encoded; a is 32 bytes, little-endian
ge_scalarmult_base(a) ==
  Strict(a, LAMBDA scalar :
    With([X |-> ed25519_B.x, Y |-> ed25519_B.y, Z |-> fe_one,
          T |-> fe_mul(ed25519_B.x, ed25519_B.y, ed25519_fe)], LAMBDA B :
    With(ge_scalarmult_bits(ge_p3_0, B, mp_from_bytes(scalar), 0, 256, ed25519_fe), LAMBDA R :
      ge_p3_tobytes(R, ed25519_fe))))

\* az[0] &= 248; az[31] &= 63; az[31] |= 64
ed25519_clamp(az) ==
  [i \in 1..32 |->
     IF i = 1 THEN byte_at(az, 1) - (byte_at(az, 1) % 8)
     ELSE IF i = 32 THEN (byte_at(az, 32) % 64) + 64
     ELSE byte_at(az, i)]

\* SHA-512 of a message (the function hmac_sha512.c implements as well)
SHA_512(m) ==
  Strict(m, LAMBDA msg :
    sha512_final(sha512_update(sha512_init(UninitCtx(0)), msg)).hash)

\* the public key of the seeds the calls below are made with and of the
\* 32-byte literals of the repository's tests and examples
KnownKeypairs ==
  (   << 0, 0, 0, 0, 0, 0, 0, 0, 0, 0, 0, 0, 0, 0, 0, 0,
         0, 0, 0, 0, 0, 0, 0, 0, 0, 0, 0, 0, 0, 0, 0, 0 >>
   :> << 59, 106, 39, 188, 206, 182, 164, 45, 98, 163, 168, 208, 42, 111, 13, 115,
         101, 50, 21, 119, 29, 226, 67, 166, 58, 192, 72, 161, 139, 89, 218, 41 >> )
  @@
  (   << 0, 0, 0, 0, 0, 0, 0, 0, 0, 0, 0, 0, 0, 0, 0, 0,
         0, 0, 0, 0, 0, 0, 0, 0, 0, 0, 0, 0, 0, 0, 0, 1 >>
   :> << 76, 181, 171, 246, 173, 121, 251, 245, 171, 188, 202, 252, 194, 105, 216, 92,
         210, 101, 30, 212, 184, 133, 181, 134, 159, 36, 26, 237, 240, 165, 186, 41 >> )
  @@
  (   << 0, 0, 0, 0, 0, 0, 0, 0, 0, 0, 0, 0, 0, 0, 0, 0,
         0, 0, 0, 0, 0, 0, 0, 0, 0, 0, 0, 0, 0, 0, 0, 2 >>
   :> << 116, 34, 185, 136, 117, 152, 6, 142, 50, 196, 68, 138, 148, 154, 219, 41,
         13, 15, 78, 53, 185, 224, 27, 14, 229, 241, 161, 230, 0, 254, 38, 116 >> )
  @@
  (   << 0, 0, 0, 0, 0, 0, 0, 0, 0, 0, 0, 0, 0, 0, 0, 0,
         0, 0, 0, 0, 0, 0, 0, 0, 0, 0, 0, 0, 0, 0, 0, 16 >>
   :> << 185, 42, 170, 124, 141, 178, 17, 57, 170, 125, 126, 192, 218, 168, 215, 230,
         37, 25, 214, 238, 70, 164, 83, 78, 7, 100, 76, 104, 58, 0, 131, 145 >> )
  @@
  (   << 0, 0, 0, 0, 0, 0, 0, 0, 0, 0, 0, 0, 0, 0, 0, 0,
         0, 0, 0, 0, 0, 0, 0, 0, 0, 0, 0, 0, 0, 0, 0, 32 >>
   :> << 192, 91, 123, 238, 100, 200, 76, 122, 216, 14, 69, 172, 20, 233, 139, 62,
         62, 100, 80, 41, 2, 64, 29, 196, 145, 18, 109, 175, 193, 233, 56, 97 >> )
  @@
  (   << 0, 0, 0, 0, 0, 0, 0, 0, 0, 0, 0, 0, 0, 0, 0, 0,
         0, 0, 0, 0, 0, 0, 0, 0, 0, 0, 0, 0, 0, 0, 1, 0 >>
   :> << 121, 246, 215, 190, 138, 90, 193, 166, 255, 106, 204, 81, 187, 168, 12, 82,
         57, 150, 39, 96, 35, 6, 114, 130, 147, 231, 89, 95, 126, 207, 48, 127 >> )
  @@
  (   << 0, 0, 0, 0, 0, 0, 0, 0, 0, 0, 0, 0, 0, 0, 0, 0,
         0, 0, 0, 0, 0, 0, 0, 0, 0, 0, 0, 0, 0, 0, 16, 0 >>
   :> << 240, 234, 162, 139, 245, 79, 4, 15, 115, 216, 66, 208, 31, 251, 161, 66,
         226, 221, 40, 1, 89, 189, 130, 0, 154, 66, 191, 187, 93, 167, 45, 98 >> )
  @@
  (   << 0, 47, 221, 31, 118, 65, 121, 58, 176, 100, 187, 122, 168, 72, 247, 98,
         231, 236, 110, 51, 47, 252, 38, 238, 172, 218, 20, 26, 227, 59, 23, 131 >>
   :> << 119, 209, 216, 235, 172, 209, 63, 78, 47, 138, 64, 226, 140, 74, 99, 188,
         156, 227, 191, 182, 151, 22, 51, 75, 203, 40, 163, 62, 177, 52, 8, 108 >> )
  @@
  (   << 1, 35, 69, 103, 137, 171, 205, 239, 1, 35, 69, 103, 137, 171, 205, 239,
         1, 35, 69, 103, 137, 171, 205, 239, 1, 35, 69, 103, 137, 171, 205, 239 >>
   :> << 32, 122, 6, 120, 146, 130, 30, 37, 215, 112, 241, 251, 160, 196, 124, 17,
         255, 75, 129, 62, 84, 22, 46, 206, 158, 184, 57, 224, 118, 35, 26, 182 >> )
  @@
  (   << 8, 0, 0, 0, 0, 0, 0, 0, 0, 0, 0, 0, 0, 0, 0, 0,
         0, 0, 0, 0, 0, 0, 0, 0, 0, 0, 0, 0, 0, 0, 0, 0 >>
   :> << 212, 197, 6, 27, 129, 196, 104, 43, 39, 160, 207, 198, 69, 156, 217, 215,
         137, 46, 182, 10, 67, 247, 61, 209, 6, 11, 108, 71, 138, 167, 195, 216 >> )
  @@
  (   << 22, 75, 122, 123, 252, 248, 25, 226, 227, 149, 251, 231, 59, 86, 224, 163,
         135, 189, 100, 34, 46, 131, 31, 214, 16, 39, 12, 215, 234, 37, 5, 84 >>
   :> << 110, 53, 61, 166, 94, 92, 48, 179, 36, 85, 222, 14, 93, 15, 181, 143,
         204, 20, 110, 237, 11, 222, 138, 75, 83, 81, 186, 45, 184, 44, 156, 235 >> )
  @@
  (   << 35, 184, 107, 37, 45, 83, 100, 198, 147, 11, 33, 153, 196, 124, 238, 44,
         80, 35, 225, 60, 181, 100, 80, 244, 106, 3, 41, 29, 30, 80, 60, 236 >>
   :> << 46, 48, 211, 224, 243, 224, 65, 52, 248, 219, 74, 143, 164, 171, 140, 82,
         141, 205, 29, 125, 96, 110, 87, 26, 38, 215, 31, 33, 102, 236, 245, 25 >> )
  @@
  (   << 39, 129, 23, 252, 20, 76, 114, 52, 15, 103, 208, 242, 49, 110, 131, 134,
         206, 255, 191, 43, 36, 40, 201, 197, 31, 239, 124, 89, 127, 29, 66, 110 >>
   :> << 158, 249, 142, 74, 213, 125, 202, 209, 47, 2, 221, 112, 240, 100, 130, 80,
         24, 166, 19, 96, 222, 205, 241, 246, 237, 184, 189, 156, 253, 63, 69, 24 >> )
  @@
  (   << 41, 13, 236, 217, 84, 139, 98, 168, 214, 3, 69, 169, 136, 56, 111, 200,
         75, 166, 188, 149, 72, 64, 8, 246, 54, 47, 147, 22, 14, 243, 229, 99 >>
   :> << 38, 247, 125, 17, 252, 183, 203, 107, 2, 50, 210, 152, 67, 90, 224, 191,
         105, 33, 63, 167, 128, 132, 114, 30, 83, 104, 52, 140, 232, 37, 41, 169 >> )
  @@
  (   << 43, 223, 215, 55, 239, 85, 194, 64, 108, 126, 34, 166, 139, 197, 94, 62,
         188, 106, 63, 70, 135, 32, 154, 141, 113, 26, 40, 42, 73, 173, 5, 82 >>
   :> << 12, 229, 214, 144, 62, 29, 178, 250, 122, 10, 53, 209, 176, 13, 125, 113,
         211, 250, 162, 70, 178, 28, 186, 134, 147, 51, 208, 101, 18, 121, 91, 7 >> )
  @@
  (   << 44, 58, 60, 24, 67, 128, 73, 205, 182, 174, 153, 178, 241, 88, 227, 93,
         212, 204, 178, 172, 118, 30, 92, 106, 94, 183, 76, 225, 235, 254, 180, 18 >>
   :> << 80, 128, 66, 239, 92, 228, 255, 240, 134, 220, 85, 248, 134, 214, 160, 165,
         124, 160, 7, 87, 68, 114, 93, 25, 71, 121, 51, 217, 194, 136, 94, 140 >> )
  @@
  (   << 52, 243, 75, 128, 173, 61, 63, 191, 93, 178, 96, 223, 85, 124, 91, 81,
         138, 215, 196, 12, 76, 47, 92, 139, 203, 213, 243, 179, 62, 198, 26, 26 >>
   :> << 101, 248, 110, 233, 61, 247, 13, 104, 226, 78, 7, 61, 65, 92, 49, 179,
         218, 252, 199, 48, 20, 76, 232, 153, 163, 193, 136, 237, 46, 107, 119, 170 >> )
  @@
  (   << 55, 141, 100, 74, 181, 43, 138, 238, 45, 113, 51, 170, 10, 238, 238, 27,
         50, 168, 221, 214, 194, 136, 154, 247, 176, 184, 34, 112, 13, 145, 47, 182 >>
   :> << 69, 65, 215, 228, 57, 244, 190, 42, 205, 236, 37, 181, 112, 253, 174, 135,
         199, 236, 39, 249, 3, 37, 163, 111, 118, 242, 89, 90, 77, 18, 208, 153 >> )
  @@
  (   << 58, 192, 89, 190, 100, 11, 16, 113, 2, 213, 242, 89, 185, 236, 104, 162,
         1, 234, 125, 251, 90, 88, 75, 92, 133, 109, 174, 18, 224, 141, 141, 248 >>
   :> << 241, 51, 109, 82, 53, 32, 167, 113, 180, 15, 228, 249, 114, 38, 184, 151,
         6, 7, 201, 235, 203, 77, 102, 36, 90, 69, 75, 83, 104, 252, 95, 111 >> )
  @@
  (   << 61, 64, 23, 195, 232, 67, 137, 90, 146, 183, 10, 167, 77, 27, 126, 188,
         156, 152, 44, 207, 46, 196, 150, 140, 192, 205, 85, 241, 42, 244, 102, 12 >>
   :> << 146, 178, 229, 248, 221, 231, 135, 30, 65, 118, 64, 54, 20, 115, 106, 203,
         73, 150, 242, 224, 57, 189, 128, 15, 149, 57, 77, 100, 218, 24, 244, 180 >> )
  @@
  (   << 63, 255, 255, 255, 255, 255, 255, 255, 255, 255, 255, 255, 255, 255, 255, 255,
         174, 171, 183, 57, 171, 210, 40, 14, 239, 244, 151, 163, 52, 13, 144, 80 >>
   :> << 83, 219, 226, 153, 224, 250, 32, 105, 40, 148, 57, 150, 151, 56, 176, 11,
         165, 100, 133, 4, 19, 129, 209, 29, 215, 162, 17, 168, 30, 75, 141, 230 >> )
  @@
  (   << 68, 92, 251, 136, 250, 162, 55, 41, 179, 149, 227, 10, 205, 21, 177, 27,
         79, 42, 242, 42, 196, 82, 55, 107, 144, 13, 6, 129, 32, 108, 119, 18 >>
   :> << 99, 222, 153, 8, 143, 181, 72, 21, 17, 65, 62, 247, 30, 222, 183, 177,
         178, 42, 91, 43, 111, 9, 6, 203, 84, 30, 115, 36, 99, 122, 14, 67 >> )
  @@
  (   << 69, 211, 179, 103, 166, 144, 78, 110, 141, 80, 46, 224, 73, 153, 167, 194,
         118, 71, 249, 31, 168, 69, 212, 86, 82, 95, 211, 82, 174, 61, 115, 113 >>
   :> << 146, 115, 187, 255, 91, 45, 22, 189, 20, 45, 36, 166, 211, 155, 14, 240,
         236, 66, 46, 153, 57, 149, 94, 184, 242, 237, 98, 37, 100, 211, 66, 56 >> )
  @@
  (   << 71, 23, 50, 133, 168, 215, 52, 30, 94, 151, 47, 198, 119, 40, 99, 132,
         248, 2, 248, 239, 66, 165, 236, 95, 3, 187, 250, 37, 76, 176, 31, 173 >>
   :> << 30, 249, 11, 110, 45, 10, 211, 137, 95, 86, 148, 245, 233, 7, 132, 143,
         37, 200, 187, 21, 37, 203, 138, 127, 162, 103, 232, 153, 108, 151, 89, 19 >> )
  @@
  (   << 73, 208, 58, 25, 94, 35, 155, 82, 119, 152, 102, 179, 48, 36, 33, 15,
         199, 220, 102, 233, 194, 153, 137, 117, 192, 170, 69, 193, 112, 37, 73, 213 >>
   :> << 0, 19, 145, 72, 174, 45, 216, 2, 220, 43, 167, 216, 194, 243, 34, 157,
         59, 112, 169, 40, 239, 247, 139, 201, 1, 205, 54, 130, 133, 61, 21, 169 >> )
  @@
  (   << 75, 138, 166, 241, 135, 109, 193, 178, 59, 175, 148, 75, 69, 136, 24, 29,
         155, 233, 69, 112, 206, 99, 45, 89, 144, 77, 188, 209, 216, 208, 97, 193 >>
   :> << 151, 123, 84, 195, 50, 25, 200, 35, 99, 27, 7, 87, 193, 169, 248, 242,
         151, 49, 139, 44, 236, 20, 232, 235, 107, 145, 44, 105, 186, 154, 32, 117 >> )
  @@
  (   << 76, 173, 160, 222, 155, 11, 101, 70, 138, 119, 154, 115, 180, 37, 94, 28,
         129, 197, 216, 66, 87, 252, 109, 66, 72, 54, 126, 178, 54, 208, 51, 173 >>
   :> << 77, 68, 158, 93, 91, 79, 191, 220, 172, 40, 198, 161, 44, 246, 145, 13,
         88, 112, 119, 47, 219, 0, 62, 128, 24, 18, 124, 190, 225, 13, 249, 69 >> )
  @@
  (   << 76, 205, 8, 155, 40, 255, 150, 218, 157, 182, 195, 70, 236, 17, 78, 15,
         91, 138, 49, 159, 53, 171, 166, 36, 218, 140, 246, 237, 79, 184, 166, 251 >>
   :> << 61, 64, 23, 195, 232, 67, 137, 90, 146, 183, 10, 167, 77, 27, 126, 188,
         156, 152, 44, 207, 46, 196, 150, 140, 192, 205, 85, 241, 42, 244, 102, 12 >> )
  @@
  (   << 78, 3, 101, 122, 234, 69, 169, 79, 199, 212, 123, 168, 38, 200, 214, 103,
         192, 209, 230, 227, 58, 100, 160, 54, 236, 68, 245, 143, 161, 45, 108, 69 >>
   :> << 152, 9, 63, 75, 117, 36, 119, 233, 70, 76, 17, 220, 86, 17, 48, 30,
         37, 43, 45, 67, 155, 23, 112, 236, 89, 123, 158, 162, 118, 23, 102, 136 >> )
  @@
  (   << 90, 240, 206, 149, 186, 28, 83, 39, 250, 58, 3, 162, 215, 16, 73, 162,
         141, 245, 97, 132, 97, 86, 138, 33, 172, 193, 208, 39, 163, 234, 118, 98 >>
   :> << 188, 92, 19, 115, 198, 153, 110, 233, 33, 11, 92, 199, 225, 10, 34, 110,
         135, 144, 15, 135, 136, 57, 108, 107, 168, 79, 108, 61, 14, 129, 118, 204 >> )
  @@
  (   << 95, 66, 59, 249, 66, 198, 215, 78, 44, 128, 242, 222, 89, 185, 180, 158,
         20, 244, 177, 196, 163, 155, 111, 81, 225, 184, 247, 155, 138, 51, 228, 181 >>
   :> << 169, 32, 75, 224, 56, 132, 66, 134, 73, 79, 108, 86, 9, 105, 245, 179,
         108, 199, 213, 41, 15, 33, 31, 244, 230, 199, 137, 87, 11, 37, 151, 158 >> )
  @@
  (   << 97, 229, 22, 226, 103, 110, 74, 222, 253, 21, 11, 35, 175, 61, 208, 159,
         190, 139, 37, 24, 130, 109, 105, 60, 39, 226, 139, 79, 162, 22, 14, 221 >>
   :> << 137, 114, 202, 183, 33, 234, 6, 144, 82, 77, 181, 218, 66, 121, 53, 216,
         240, 1, 153, 44, 54, 231, 23, 2, 252, 46, 239, 84, 37, 52, 117, 184 >> )
  @@
  (   << 99, 31, 198, 21, 175, 11, 242, 9, 72, 170, 151, 199, 25, 48, 246, 15,
         36, 96, 185, 221, 29, 134, 95, 149, 151, 125, 162, 197, 155, 198, 222, 173 >>
   :> << 147, 131, 188, 135, 116, 155, 232, 53, 11, 193, 217, 61, 208, 76, 50, 97,
         19, 149, 106, 73, 37, 141, 197, 46, 47, 159, 246, 90, 138, 148, 53, 200 >> )
  @@
  (   << 104, 94, 15, 70, 80, 46, 206, 165, 197, 41, 87, 148, 204, 122, 117, 182,
         242, 230, 0, 211, 66, 231, 116, 127, 7, 32, 128, 29, 174, 83, 218, 200 >>
   :> << 139, 164, 21, 18, 224, 41, 72, 179, 136, 129, 69, 182, 200, 148, 242, 215,
         165, 208, 50, 23, 74, 235, 37, 38, 232, 163, 70, 97, 43, 79, 151, 6 >> )
  @@
  (   << 107, 86, 208, 55, 224, 95, 37, 152, 189, 15, 210, 33, 93, 106, 30, 82,
         149, 230, 79, 115, 246, 63, 10, 236, 139, 145, 90, 152, 93, 120, 101, 152 >>
   :> << 127, 238, 77, 141, 171, 242, 36, 226, 254, 147, 169, 186, 234, 255, 16, 184,
         141, 209, 143, 190, 61, 224, 119, 108, 231, 91, 189, 169, 6, 137, 142, 247 >> )
  @@
  (   << 119, 209, 216, 235, 172, 209, 63, 78, 47, 138, 64, 226, 140, 74, 99, 188,
         156, 227, 191, 182, 151, 22, 51, 75, 203, 40, 163, 62, 177, 52, 8, 108 >>
   :> << 20, 49, 171, 44, 200, 242, 254, 14, 253, 157, 9, 55, 249, 56, 60, 101,
         20, 162, 102, 75, 155, 66, 118, 223, 160, 151, 44, 57, 47, 112, 210, 189 >> )
  @@
  (   << 127, 255, 255, 255, 255, 255, 255, 255, 255, 255, 255, 255, 255, 255, 255, 255,
         93, 87, 110, 115, 87, 164, 80, 29, 223, 233, 47, 70, 104, 27, 32, 160 >>
   :> << 180, 232, 83, 95, 210, 119, 23, 91, 175, 68, 75, 161, 235, 132, 210, 124,
         54, 31, 134, 51, 61, 181, 28, 228, 85, 136, 166, 58, 242, 166, 18, 114 >> )
  @@
  (   << 128, 0, 0, 0, 0, 0, 0, 0, 0, 0, 0, 0, 0, 0, 0, 0,
         0, 0, 0, 0, 0, 0, 0, 0, 0, 0, 0, 0, 0, 0, 0, 0 >>
   :> << 41, 216, 173, 161, 220, 113, 45, 36, 100, 138, 213, 63, 189, 127, 0, 222,
         55, 127, 103, 36, 111, 10, 252, 187, 77, 184, 97, 252, 83, 126, 75, 178 >> )
  @@
  (   << 128, 178, 66, 99, 199, 193, 163, 235, 183, 20, 147, 193, 221, 123, 232, 180,
         155, 70, 209, 244, 27, 74, 238, 193, 18, 27, 1, 55, 131, 248, 243, 82 >>
   :> << 176, 184, 51, 168, 162, 0, 118, 45, 68, 26, 180, 156, 116, 232, 118, 128,
         47, 111, 135, 241, 124, 0, 132, 101, 79, 63, 5, 29, 64, 181, 167, 189 >> )
  @@
  (   << 135, 170, 124, 222, 165, 239, 97, 157, 79, 240, 180, 36, 26, 29, 108, 176,
         35, 121, 244, 226, 206, 78, 194, 120, 122, 208, 179, 5, 69, 225, 124, 222 >>
   :> << 199, 233, 103, 116, 163, 224, 243, 16, 213, 157, 129, 160, 240, 218, 126, 45,
         49, 52, 178, 103, 114, 243, 27, 104, 24, 184, 121, 194, 32, 132, 2, 129 >> )
  @@
  (   << 137, 245, 200, 59, 96, 206, 99, 223, 182, 156, 231, 98, 137, 92, 110, 252,
         121, 145, 156, 68, 92, 26, 18, 195, 84, 238, 34, 194, 94, 144, 103, 194 >>
   :> << 128, 88, 21, 24, 169, 173, 184, 83, 39, 158, 73, 24, 63, 54, 172, 5,
         218, 146, 183, 214, 112, 207, 42, 240, 26, 114, 150, 207, 126, 246, 156, 72 >> )
  @@
  (   << 139, 212, 135, 43, 91, 130, 5, 53, 247, 188, 137, 59, 59, 245, 19, 5,
         46, 169, 213, 183, 65, 175, 21, 46, 96, 254, 160, 28, 47, 209, 61, 85 >>
   :> << 69, 174, 163, 3, 237, 22, 41, 19, 221, 20, 16, 10, 98, 228, 147, 199,
         105, 235, 128, 44, 94, 33, 74, 248, 139, 200, 144, 240, 167, 205, 71, 29 >> )
  @@
  (   << 151, 88, 191, 117, 192, 90, 153, 74, 109, 3, 79, 101, 248, 240, 230, 253,
         202, 234, 177, 163, 77, 74, 107, 75, 99, 110, 7, 10, 56, 188, 231, 55 >>
   :> << 191, 99, 40, 218, 163, 28, 237, 104, 9, 230, 138, 215, 133, 41, 8, 80,
         21, 101, 60, 193, 186, 157, 126, 251, 80, 71, 189, 4, 59, 175, 242, 90 >> )
  @@
  (   << 157, 97, 177, 157, 239, 253, 90, 96, 186, 132, 74, 244, 146, 236, 44, 196,
         68, 73, 197, 105, 123, 50, 105, 25, 112, 59, 172, 3, 28, 174, 127, 96 >>
   :> << 215, 90, 152, 1, 130, 177, 10, 183, 213, 75, 254, 211, 201, 100, 7, 58,
         14, 225, 114, 243, 218, 166, 35, 37, 175, 2, 26, 104, 247, 7, 81, 26 >> )
  @@
  (   << 164, 197, 214, 217, 30, 132, 47, 24, 177, 240, 115, 127, 251, 51, 162, 203,
         15, 117, 199, 165, 61, 105, 252, 47, 119, 99, 186, 51, 162, 177, 0, 139 >>
   :> << 183, 76, 80, 118, 97, 182, 251, 98, 171, 163, 77, 154, 182, 125, 240, 211,
         12, 237, 114, 43, 73, 75, 79, 100, 15, 65, 162, 191, 60, 28, 157, 121 >> )
  @@
  (   << 169, 28, 165, 193, 26, 162, 94, 180, 214, 121, 39, 92, 197, 120, 128, 99,
         165, 241, 151, 65, 18, 12, 79, 45, 226, 173, 235, 235, 16, 162, 152, 221 >>
   :> << 20, 184, 246, 183, 111, 14, 96, 18, 14, 14, 9, 91, 99, 125, 154, 246,
         63, 132, 114, 236, 47, 132, 88, 101, 233, 109, 99, 2, 127, 176, 84, 38 >> )
  @@
  (   << 172, 9, 116, 190, 195, 154, 23, 227, 107, 164, 166, 180, 210, 56, 255, 148,
         75, 172, 180, 120, 203, 237, 94, 252, 174, 120, 77, 123, 244, 242, 255, 128 >>
   :> << 70, 137, 149, 205, 211, 194, 117, 105, 224, 4, 200, 144, 152, 196, 75, 245,
         132, 177, 164, 198, 205, 137, 162, 3, 252, 71, 130, 95, 72, 104, 73, 100 >> )
  @@
  (   << 176, 95, 81, 145, 195, 39, 193, 69, 77, 58, 183, 186, 186, 227, 27, 192,
         250, 102, 204, 91, 149, 201, 169, 212, 250, 233, 179, 25, 17, 168, 93, 21 >>
   :> << 121, 145, 156, 225, 126, 5, 21, 205, 23, 189, 98, 160, 217, 144, 13, 108,
         24, 30, 26, 120, 28, 44, 194, 53, 137, 14, 135, 13, 233, 158, 233, 249 >> )
  @@
  (   << 176, 186, 70, 86, 55, 69, 140, 105, 144, 229, 168, 197, 246, 29, 74, 247,
         229, 118, 217, 127, 249, 75, 135, 45, 231, 111, 128, 80, 54, 30, 227, 219 >>
   :> << 159, 172, 57, 157, 137, 14, 116, 211, 170, 54, 99, 182, 185, 222, 218, 191,
         209, 204, 123, 28, 30, 23, 212, 22, 204, 4, 199, 106, 232, 180, 29, 195 >> )
  @@
  (   << 181, 72, 183, 238, 219, 61, 107, 91, 186, 36, 130, 33, 180, 197, 62, 97,
         191, 105, 152, 219, 12, 204, 185, 63, 47, 39, 138, 120, 125, 188, 233, 64 >>
   :> << 246, 131, 82, 88, 216, 104, 208, 136, 16, 173, 81, 123, 244, 184, 94, 173,
         41, 89, 64, 142, 19, 58, 16, 31, 13, 9, 42, 139, 143, 94, 203, 52 >> )
  @@
  (   << 181, 250, 172, 181, 192, 218, 247, 85, 152, 196, 235, 111, 45, 82, 56, 97,
         51, 24, 20, 104, 15, 2, 204, 15, 219, 3, 176, 5, 54, 74, 214, 147 >>
   :> << 101, 237, 12, 62, 188, 27, 137, 124, 10, 115, 247, 56, 80, 119, 148, 220,
         195, 250, 255, 13, 3, 242, 139, 41, 188, 145, 217, 225, 62, 5, 113, 78 >> )
  @@
  (   << 182, 2, 44, 172, 60, 73, 130, 177, 13, 94, 235, 85, 195, 228, 222, 21,
         19, 70, 118, 251, 109, 224, 68, 96, 101, 201, 116, 64, 250, 140, 106, 88 >>
   :> << 3, 206, 219, 206, 196, 111, 206, 84, 211, 200, 99, 131, 200, 15, 96, 123,
         68, 94, 13, 195, 79, 0, 26, 199, 74, 169, 32, 87, 12, 152, 176, 42 >> )
  @@
  (   << 185, 92, 91, 5, 44, 171, 230, 230, 230, 40, 64, 8, 50, 98, 73, 158,
         83, 149, 29, 148, 221, 97, 137, 48, 160, 217, 61, 174, 123, 204, 224, 138 >>
   :> << 85, 241, 127, 98, 177, 196, 101, 89, 137, 135, 32, 89, 251, 56, 0, 253,
         207, 242, 48, 159, 228, 94, 82, 23, 41, 37, 41, 135, 34, 99, 223, 207 >> )
  @@
  (   << 188, 54, 120, 158, 122, 30, 40, 20, 54, 70, 66, 41, 130, 143, 129, 125,
         102, 18, 247, 180, 119, 214, 101, 145, 255, 150, 169, 224, 100, 188, 201, 138 >>
   :> << 15, 197, 127, 147, 197, 184, 15, 193, 178, 141, 38, 253, 178, 20, 111, 132,
         172, 233, 109, 5, 182, 115, 147, 152, 19, 239, 89, 52, 88, 228, 94, 193 >> )
  @@
  (   << 191, 62, 132, 130, 121, 167, 34, 200, 6, 180, 133, 164, 126, 103, 200, 7,
         185, 70, 163, 55, 190, 232, 148, 38, 116, 39, 136, 89, 225, 50, 146, 251 >>
   :> << 30, 56, 54, 126, 107, 174, 13, 81, 131, 112, 74, 3, 138, 39, 56, 77,
         159, 43, 250, 79, 152, 23, 9, 148, 204, 174, 152, 228, 88, 64, 6, 60 >> )
  @@
  (   << 191, 255, 255, 255, 255, 255, 255, 255, 255, 255, 255, 255, 255, 255, 255, 255,
         12, 3, 37, 173, 3, 118, 120, 44, 207, 221, 198, 233, 156, 40, 176, 240 >>
   :> << 209, 15, 33, 198, 17, 222, 194, 80, 128, 97, 32, 77, 118, 84, 39, 113,
         14, 69, 9, 109, 51, 31, 86, 16, 140, 199, 156, 180, 78, 85, 225, 155 >> )
  @@
  (   << 197, 210, 70, 1, 134, 247, 35, 60, 146, 126, 125, 178, 220, 199, 3, 192,
         229, 0, 182, 83, 202, 130, 39, 59, 123, 250, 216, 4, 93, 133, 164, 112 >>
   :> << 211, 99, 162, 42, 175, 196, 157, 17, 222, 236, 65, 140, 241, 107, 156, 34,
         201, 156, 246, 179, 152, 49, 118, 127, 246, 211, 211, 181, 227, 194, 25, 184 >> )
  @@
  (   << 202, 254, 186, 190, 202, 254, 186, 190, 202, 254, 186, 190, 202, 254, 186, 190,
         202, 254, 186, 190, 202, 254, 186, 190, 202, 254, 186, 190, 202, 254, 186, 190 >>
   :> << 170, 115, 49, 135, 254, 180, 212, 138, 10, 245, 101, 137, 14, 150, 121, 202,
         67, 40, 228, 89, 133, 219, 154, 179, 84, 88, 211, 209, 128, 181, 36, 22 >> )
  @@
  (   << 213, 180, 74, 74, 215, 146, 94, 137, 224, 239, 32, 255, 122, 60, 123, 37,
         210, 123, 61, 124, 110, 124, 156, 141, 90, 142, 159, 190, 175, 59, 108, 77 >>
   :> << 220, 83, 59, 94, 129, 77, 170, 186, 205, 151, 54, 117, 242, 117, 46, 241,
         201, 7, 177, 227, 227, 214, 131, 6, 149, 189, 37, 230, 185, 140, 248, 134 >> )
  @@
  (   << 215, 90, 152, 1, 130, 177, 10, 183, 213, 75, 254, 211, 201, 100, 7, 58,
         14, 225, 114, 243, 218, 166, 35, 37, 175, 2, 26, 104, 247, 7, 81, 26 >>
   :> << 19, 76, 116, 90, 206, 6, 133, 104, 78, 255, 48, 104, 83, 38, 139, 110,
         234, 130, 207, 168, 67, 118, 173, 117, 22, 221, 67, 129, 183, 189, 203, 217 >> )
  @@
  (   << 217, 22, 27, 217, 254, 223, 165, 6, 171, 72, 164, 79, 41, 206, 194, 76,
         68, 148, 92, 150, 183, 35, 150, 145, 7, 179, 202, 48, 193, 234, 247, 6 >>
   :> << 170, 185, 234, 240, 133, 72, 204, 46, 196, 38, 4, 6, 122, 0, 254, 49,
         37, 35, 39, 29, 98, 114, 253, 151, 39, 34, 188, 61, 29, 74, 119, 168 >> )
  @@
  (   << 218, 168, 51, 183, 214, 184, 167, 2, 3, 139, 39, 78, 174, 163, 244, 228,
         190, 157, 145, 78, 235, 97, 241, 112, 46, 105, 108, 32, 58, 18, 104, 84 >>
   :> << 71, 111, 185, 159, 104, 6, 200, 99, 77, 166, 82, 205, 50, 36, 26, 237,
         78, 65, 51, 152, 136, 50, 140, 87, 33, 153, 169, 5, 102, 244, 217, 250 >> )
  @@
  (   << 218, 245, 152, 64, 238, 142, 44, 250, 65, 234, 108, 212, 229, 23, 82, 154,
         187, 172, 204, 5, 58, 204, 187, 1, 102, 121, 120, 56, 122, 155, 100, 14 >>
   :> << 195, 1, 67, 235, 180, 117, 210, 171, 67, 213, 28, 180, 176, 231, 191, 184,
         182, 53, 148, 78, 178, 125, 24, 114, 57, 166, 119, 78, 5, 174, 236, 32 >> )
  @@
  (   << 220, 146, 68, 105, 179, 52, 174, 210, 161, 159, 172, 114, 82, 233, 150, 26,
         234, 65, 248, 217, 25, 150, 54, 96, 41, 219, 224, 136, 66, 41, 191, 54 >>
   :> << 168, 240, 226, 219, 169, 254, 53, 146, 195, 73, 125, 173, 255, 191, 89, 9,
         85, 121, 136, 114, 198, 118, 109, 12, 31, 131, 245, 106, 43, 230, 123, 213 >> )
  @@
  (   << 222, 173, 190, 239, 222, 173, 190, 239, 222, 173, 190, 239, 222, 173, 190, 239,
         222, 173, 190, 239, 222, 173, 190, 239, 222, 173, 190, 239, 222, 173, 190, 239 >>
   :> << 255, 87, 87, 93, 199, 175, 139, 252, 77, 8, 55, 204, 28, 226, 1, 123,
         104, 106, 136, 20, 93, 197, 87, 154, 149, 142, 52, 98, 254, 154, 144, 142 >> )
  @@
  (   << 224, 19, 145, 145, 20, 152, 191, 95, 52, 134, 215, 197, 253, 17, 247, 177,
         0, 170, 23, 56, 157, 51, 254, 33, 158, 170, 1, 100, 241, 144, 60, 201 >>
   :> << 203, 86, 62, 141, 166, 73, 14, 153, 22, 0, 61, 93, 244, 124, 239, 232,
         86, 112, 96, 79, 16, 222, 80, 190, 63, 49, 77, 186, 201, 170, 140, 98 >> )
  @@
  (   << 227, 123, 106, 119, 93, 200, 125, 186, 164, 223, 169, 249, 110, 94, 63, 253,
         222, 189, 113, 248, 134, 114, 137, 134, 93, 245, 163, 45, 32, 205, 201, 68 >>
   :> << 119, 20, 52, 85, 166, 168, 111, 167, 213, 161, 51, 243, 91, 207, 161, 194,
         3, 65, 169, 32, 181, 64, 128, 112, 215, 205, 76, 136, 229, 43, 108, 31 >> )
  @@
  (   << 239, 255, 255, 255, 255, 255, 255, 255, 255, 255, 255, 255, 255, 255, 255, 239,
         171, 234, 205, 110, 250, 132, 10, 179, 251, 45, 229, 200, 13, 99, 20, 255 >>
   :> << 140, 166, 178, 162, 254, 208, 203, 56, 86, 73, 190, 50, 17, 229, 122, 123,
         97, 224, 115, 114, 110, 110, 77, 251, 21, 219, 64, 178, 81, 252, 204, 193 >> )
  @@
  (   << 240, 74, 247, 5, 116, 53, 83, 18, 249, 0, 240, 39, 116, 58, 20, 175,
         0, 38, 11, 168, 156, 30, 116, 170, 35, 207, 220, 199, 108, 205, 59, 24 >>
   :> << 13, 42, 71, 15, 58, 228, 81, 46, 128, 115, 78, 186, 11, 175, 166, 235,
         188, 1, 241, 179, 230, 29, 213, 78, 179, 13, 63, 105, 183, 198, 207, 116 >> )
  @@
  (   << 245, 25, 116, 126, 213, 153, 2, 79, 56, 130, 35, 142, 90, 180, 57, 96,
         19, 37, 114, 183, 52, 95, 190, 185, 169, 7, 105, 218, 253, 33, 173, 103 >>
   :> << 94, 120, 152, 230, 177, 50, 69, 238, 211, 53, 217, 167, 37, 80, 61, 195,
         127, 53, 17, 245, 96, 74, 142, 149, 155, 54, 183, 55, 32, 178, 142, 111 >> )
  @@
  (   << 245, 229, 118, 124, 241, 83, 49, 149, 23, 99, 15, 34, 104, 118, 184, 108,
         129, 96, 204, 88, 59, 192, 19, 116, 76, 107, 242, 85, 245, 204, 14, 229 >>
   :> << 39, 129, 23, 252, 20, 76, 114, 52, 15, 103, 208, 242, 49, 110, 131, 134,
         206, 255, 191, 43, 36, 40, 201, 197, 31, 239, 124, 89, 127, 29, 66, 110 >> )
  @@
  (   << 250, 115, 176, 8, 157, 86, 162, 132, 239, 176, 240, 117, 108, 137, 11, 233,
         177, 181, 219, 221, 142, 232, 26, 54, 85, 248, 62, 51, 178, 39, 157, 57 >>
   :> << 137, 189, 27, 248, 178, 156, 163, 201, 30, 78, 18, 81, 69, 105, 16, 129,
         108, 9, 190, 69, 229, 230, 77, 23, 145, 43, 204, 14, 125, 55, 215, 148 >> )
  @@
  (   << 250, 218, 230, 180, 159, 18, 155, 187, 129, 43, 232, 64, 123, 123, 40, 148,
         243, 74, 236, 246, 219, 209, 249, 176, 240, 199, 233, 133, 48, 152, 252, 150 >>
   :> << 211, 106, 14, 247, 175, 35, 71, 180, 186, 241, 149, 177, 35, 196, 135, 200,
         119, 56, 189, 219, 62, 66, 190, 158, 146, 98, 26, 113, 102, 6, 206, 181 >> )
  @@
  (   << 252, 133, 183, 231, 23, 48, 214, 205, 135, 72, 42, 171, 45, 114, 84, 113,
         54, 255, 53, 243, 73, 114, 69, 74, 125, 93, 88, 149, 53, 57, 173, 232 >>
   :> << 84, 128, 113, 90, 99, 88, 9, 106, 60, 255, 59, 82, 61, 192, 6, 180,
         135, 217, 156, 80, 173, 98, 241, 159, 133, 201, 235, 211, 63, 92, 64, 202 >> )
  @@
  (   << 253, 129, 38, 199, 161, 92, 79, 61, 113, 19, 72, 166, 153, 8, 141, 69,
         246, 9, 205, 37, 238, 88, 10, 79, 54, 39, 150, 62, 183, 155, 104, 34 >>
   :> << 22, 225, 114, 204, 223, 253, 111, 143, 106, 20, 243, 143, 36, 146, 206, 51,
         193, 60, 197, 179, 69, 53, 222, 43, 78, 76, 122, 72, 175, 63, 196, 123 >> )
  @@
  (   << 254, 221, 120, 25, 190, 98, 245, 224, 136, 47, 150, 237, 121, 143, 220, 232,
         175, 147, 123, 169, 127, 117, 54, 104, 156, 230, 221, 121, 230, 38, 47, 68 >>
   :> << 22, 209, 89, 63, 12, 187, 104, 218, 170, 151, 1, 172, 40, 22, 148, 30,
         255, 92, 71, 132, 35, 62, 46, 219, 243, 182, 240, 158, 110, 237, 0, 115 >> )
  @@
  (   << 254, 255, 255, 255, 255, 255, 255, 255, 255, 255, 255, 255, 255, 255, 255, 254,
         186, 174, 220, 230, 175, 72, 160, 59, 191, 210, 94, 140, 208, 54, 65, 255 >>
   :> << 149, 142, 21, 108, 33, 113, 119, 129, 225, 176, 51, 113, 1, 156, 50, 82,
         175, 122, 254, 69, 65, 217, 20, 36, 208, 204, 196, 47, 55, 87, 185, 124 >> )
  @@
  (   << 255, 245, 177, 153, 242, 138, 55, 156, 253, 78, 216, 251, 40, 158, 84, 17,
         91, 129, 171, 95, 246, 118, 222, 105, 135, 209, 82, 83, 110, 43, 101, 157 >>
   :> << 34, 32, 153, 75, 160, 82, 32, 250, 94, 23, 197, 21, 148, 181, 104, 119,
         196, 98, 0, 253, 17, 240, 158, 141, 176, 201, 156, 47, 110, 111, 246, 223 >> )
  @@
  (   << 255, 255, 255, 255, 255, 255, 255, 255, 255, 255, 255, 255, 255, 255, 255, 239,
         155, 255, 255, 255, 255, 255, 255, 255, 255, 255, 255, 255, 255, 255, 255, 255 >>
   :> << 132, 122, 246, 79, 227, 223, 110, 70, 248, 71, 54, 117, 87, 95, 158, 40,
         245, 214, 246, 154, 11, 229, 102, 225, 32, 121, 82, 14, 8, 229, 161, 200 >> )
  @@
  (   << 255, 255, 255, 255, 255, 255, 255, 255, 255, 255, 255, 255, 255, 255, 255, 239,
         171, 234, 205, 110, 250, 132, 10, 179, 251, 45, 229, 200, 13, 99, 20, 4 >>
   :> << 112, 163, 97, 73, 114, 113, 202, 11, 204, 190, 38, 226, 175, 211, 239, 245,
         142, 175, 99, 26, 163, 171, 33, 127, 248, 34, 40, 88, 184, 255, 178, 160 >> )
  @@
  (   << 255, 255, 255, 255, 255, 255, 255, 255, 255, 255, 255, 255, 255, 255, 255, 239,
         171, 234, 205, 110, 250, 132, 10, 179, 251, 45, 229, 200, 13, 99, 20, 20 >>
   :> << 55, 187, 32, 130, 84, 152, 214, 43, 58, 120, 90, 122, 66, 71, 111, 226,
         109, 115, 189, 183, 222, 69, 41, 215, 182, 194, 195, 36, 81, 102, 10, 22 >> )
  @@
  (   << 255, 255, 255, 255, 255, 255, 255, 255, 255, 255, 255, 255, 255, 255, 255, 239,
         171, 234, 205, 110, 250, 132, 10, 179, 251, 45, 229, 200, 13, 99, 20, 36 >>
   :> << 28, 115, 76, 19, 238, 204, 248, 104, 138, 76, 68, 111, 143, 39, 134, 106,
         41, 144, 246, 44, 128, 21, 176, 91, 10, 66, 223, 131, 166, 239, 100, 199 >> )
  @@
  (   << 255, 255, 255, 255, 255, 255, 255, 255, 255, 255, 255, 255, 255, 255, 255, 254,
         185, 255, 255, 255, 255, 255, 255, 255, 255, 255, 255, 255, 255, 255, 255, 255 >>
   :> << 91, 60, 137, 161, 208, 151, 60, 115, 224, 94, 54, 52, 63, 10, 255, 84,
         246, 154, 32, 92, 214, 181, 35, 101, 67, 146, 37, 15, 94, 168, 115, 190 >> )
  @@
  (   << 255, 255, 255, 255, 255, 255, 255, 255, 255, 255, 255, 255, 255, 255, 255, 254,
         186, 174, 220, 230, 175, 72, 160, 59, 191, 210, 94, 140, 208, 54, 65, 45 >>
   :> << 170, 231, 21, 103, 103, 102, 5, 150, 92, 242, 27, 111, 64, 234, 95, 165,
         126, 124, 238, 132, 253, 102, 176, 127, 20, 65, 137, 55, 69, 159, 19, 15 >> )
  @@
  (   << 255, 255, 255, 255, 255, 255, 255, 255, 255, 255, 255, 255, 255, 255, 255, 254,
         186, 174, 220, 230, 175, 72, 160, 59, 191, 210, 94, 140, 208, 54, 65, 46 >>
   :> << 222, 1, 226, 54, 41, 124, 240, 129, 106, 127, 170, 57, 216, 43, 33, 156,
         235, 86, 185, 215, 131, 46, 46, 205, 104, 209, 60, 79, 64, 19, 65, 175 >> )
  @@
  (   << 255, 255, 255, 255, 255, 255, 255, 255, 255, 255, 255, 255, 255, 255, 255, 254,
         186, 174, 220, 230, 175, 72, 160, 59, 191, 210, 94, 140, 208, 54, 65, 47 >>
   :> << 238, 70, 152, 55, 34, 207, 87, 131, 52, 99, 196, 114, 85, 222, 102, 62,
         227, 70, 163, 47, 139, 176, 67, 119, 7, 159, 123, 68, 121, 79, 167, 78 >> )
  @@
  (   << 255, 255, 255, 255, 255, 255, 255, 255, 255, 255, 255, 255, 255, 255, 255, 254,
         186, 174, 220, 230, 175, 72, 160, 59, 191, 210, 94, 140, 208, 54, 65, 48 >>
   :> << 163, 216, 217, 4, 203, 50, 176, 64, 14, 97, 106, 215, 234, 2, 39, 133,
         111, 225, 90, 187, 140, 132, 155, 74, 209, 163, 80, 2, 55, 135, 29, 247 >> )
  @@
  (   << 255, 255, 255, 255, 255, 255, 255, 255, 255, 255, 255, 255, 255, 255, 255, 254,
         186, 174, 220, 230, 175, 72, 160, 59, 191, 210, 94, 140, 208, 54, 65, 49 >>
   :> << 231, 15, 115, 150, 12, 240, 178, 161, 70, 225, 54, 224, 20, 3, 93, 216,
         220, 90, 112, 235, 127, 42, 148, 102, 156, 127, 179, 174, 150, 220, 206, 254 >> )
  @@
  (   << 255, 255, 255, 255, 255, 255, 255, 255, 255, 255, 255, 255, 255, 255, 255, 254,
         186, 174, 220, 230, 175, 72, 160, 59, 191, 210, 94, 140, 208, 54, 65, 50 >>
   :> << 134, 120, 117, 240, 175, 95, 45, 82, 33, 113, 197, 175, 146, 253, 245, 58,
         217, 70, 89, 222, 204, 86, 42, 96, 60, 89, 244, 102, 54, 43, 204, 51 >> )
  @@
  (   << 255, 255, 255, 255, 255, 255, 255, 255, 255, 255, 255, 255, 255, 255, 255, 254,
         186, 174, 220, 230, 175, 72, 160, 59, 191, 210, 94, 140, 208, 54, 65, 51 >>
   :> << 5, 123, 179, 11, 77, 255, 203, 178, 215, 52, 177, 197, 104, 3, 80, 39,
         191, 60, 124, 87, 153, 109, 118, 6, 47, 120, 50, 109, 139, 73, 214, 219 >> )
  @@
  (   << 255, 255, 255, 255, 255, 255, 255, 255, 255, 255, 255, 255, 255, 255, 255, 254,
         186, 174, 220, 230, 175, 72, 160, 59, 191, 210, 94, 140, 208, 54, 65, 52 >>
   :> << 59, 196, 113, 206, 218, 48, 201, 254, 90, 125, 235, 49, 0, 68, 2, 156,
         114, 203, 66, 239, 146, 141, 84, 229, 246, 11, 43, 218, 117, 7, 26, 95 >> )
  @@
  (   << 255, 255, 255, 255, 255, 255, 255, 255, 255, 255, 255, 255, 255, 255, 255, 254,
         186, 174, 220, 230, 175, 72, 160, 59, 191, 210, 94, 140, 208, 54, 65, 53 >>
   :> << 156, 4, 126, 41, 227, 174, 141, 49, 89, 197, 52, 189, 186, 41, 173, 95,
         5, 253, 29, 237, 123, 1, 202, 119, 17, 169, 187, 200, 252, 51, 107, 97 >> )
  @@
  (   << 255, 255, 255, 255, 255, 255, 255, 255, 255, 255, 255, 255, 255, 255, 255, 254,
         186, 174, 220, 230, 175, 72, 160, 59, 191, 210, 94, 140, 208, 54, 65, 54 >>
   :> << 246, 199, 41, 125, 59, 116, 225, 221, 112, 76, 180, 2, 44, 188, 193, 21,
         16, 109, 35, 126, 190, 244, 209, 84, 239, 170, 156, 100, 19, 226, 96, 91 >> )
  @@
  (   << 255, 255, 255, 255, 255, 255, 255, 255, 255, 255, 255, 255, 255, 255, 255, 254,
         186, 174, 220, 230, 175, 72, 160, 59, 191, 210, 94, 140, 208, 54, 65, 55 >>
   :> << 111, 218, 60, 165, 249, 182, 109, 162, 145, 91, 49, 161, 125, 44, 137, 216,
         233, 201, 136, 239, 23, 207, 125, 62, 215, 220, 167, 60, 68, 13, 106, 190 >> )
  @@
  (   << 255, 255, 255, 255, 255, 255, 255, 255, 255, 255, 255, 255, 255, 255, 255, 254,
         186, 174, 220, 230, 175, 72, 160, 59, 191, 210, 94, 140, 208, 54, 65, 56 >>
   :> << 26, 154, 182, 49, 81, 17, 198, 126, 175, 24, 174, 155, 254, 80, 246, 50,
         40, 218, 84, 204, 165, 49, 104, 216, 255, 27, 73, 227, 93, 236, 101, 148 >> )
  @@
  (   << 255, 255, 255, 255, 255, 255, 255, 255, 255, 255, 255, 255, 255, 255, 255, 254,
         186, 174, 220, 230, 175, 72, 160, 59, 191, 210, 94, 140, 208, 54, 65, 57 >>
   :> << 23, 205, 100, 130, 39, 211, 234, 107, 228, 231, 206, 213, 111, 178, 213, 221,
         33, 88, 75, 146, 111, 246, 203, 59, 227, 8, 231, 232, 160, 213, 43, 217 >> )
  @@
  (   << 255, 255, 255, 255, 255, 255, 255, 255, 255, 255, 255, 255, 255, 255, 255, 254,
         186, 174, 220, 230, 175, 72, 160, 59, 191, 210, 94, 140, 208, 54, 65, 58 >>
   :> << 110, 131, 183, 255, 151, 215, 207, 70, 130, 44, 36, 221, 189, 67, 174, 225,
         193, 106, 153, 185, 27, 123, 113, 153, 129, 250, 93, 224, 133, 158, 183, 242 >> )
  @@
  (   << 255, 255, 255, 255, 255, 255, 255, 255, 255, 255, 255, 255, 255, 255, 255, 254,
         186, 174, 220, 230, 175, 72, 160, 59, 191, 210, 94, 140, 208, 54, 65, 59 >>
   :> << 120, 164, 114, 162, 19, 136, 250, 107, 39, 1, 197, 169, 131, 194, 255, 231,
         84, 35, 38, 203, 128, 130, 75, 145, 148, 225, 36, 231, 20, 105, 65, 35 >> )
  @@
  (   << 255, 255, 255, 255, 255, 255, 255, 255, 255, 255, 255, 255, 255, 255, 255, 254,
         186, 174, 220, 230, 175, 72, 160, 59, 191, 210, 94, 140, 208, 54, 65, 60 >>
   :> << 57, 255, 253, 39, 201, 156, 56, 9, 135, 243, 135, 155, 236, 34, 95, 211,
         178, 25, 4, 209, 176, 112, 40, 194, 81, 232, 217, 188, 198, 47, 252, 124 >> )
  @@
  (   << 255, 255, 255, 255, 255, 255, 255, 255, 255, 255, 255, 255, 255, 255, 255, 254,
         186, 174, 220, 230, 175, 72, 160, 59, 191, 210, 94, 140, 208, 54, 65, 61 >>
   :> << 146, 70, 145, 49, 168, 18, 190, 65, 152, 218, 11, 124, 71, 141, 208, 27,
         158, 31, 142, 233, 206, 13, 186, 141, 81, 49, 169, 55, 77, 124, 219, 163 >> )
  @@
  (   << 255, 255, 255, 255, 255, 255, 255, 255, 255, 255, 255, 255, 255, 255, 255, 254,
         186, 174, 220, 230, 175, 72, 160, 59, 191, 210, 94, 140, 208, 54, 65, 62 >>
   :> << 169, 183, 177, 159, 101, 209, 135, 82, 109, 156, 145, 14, 65, 130, 191, 139,
         97, 110, 41, 203, 206, 20, 166, 83, 12, 155, 33, 25, 207, 6, 11, 200 >> )
  @@
  (   << 255, 255, 255, 255, 255, 255, 255, 255, 255, 255, 255, 255, 255, 255, 255, 254,
         186, 174, 220, 230, 175, 72, 160, 59, 191, 210, 94, 140, 208, 54, 65, 63 >>
   :> << 173, 193, 230, 189, 214, 155, 69, 167, 220, 2, 107, 207, 38, 72, 74, 61,
         97, 237, 138, 221, 141, 121, 200, 15, 56, 201, 155, 96, 37, 205, 2, 29 >> )
  @@
  (   << 255, 255, 255, 255, 255, 255, 255, 255, 255, 255, 255, 255, 255, 255, 255, 254,
         186, 174, 220, 230, 175, 72, 160, 59, 191, 210, 94, 140, 208, 54, 65, 64 >>
   :> << 219, 130, 154, 242, 59, 88, 219, 234, 59, 209, 208, 239, 156, 151, 175, 211,
         242, 238, 4, 223, 152, 68, 37, 250, 250, 132, 195, 15, 227, 64, 161, 212 >> )
  @@
  (   << 255, 255, 255, 255, 255, 255, 255, 255, 255, 255, 255, 255, 255, 255, 255, 254,
         186, 174, 220, 230, 175, 72, 160, 59, 191, 210, 94, 140, 208, 54, 65, 65 >>
   :> << 228, 237, 184, 69, 208, 157, 96, 76, 96, 99, 219, 175, 188, 140, 126, 54,
         6, 131, 98, 148, 159, 132, 255, 235, 46, 236, 202, 198, 135, 97, 220, 93 >> )
  @@
  (   << 255, 255, 255, 255, 255, 255, 255, 255, 255, 255, 255, 255, 255, 255, 255, 254,
         186, 174, 220, 230, 175, 72, 160, 59, 191, 210, 94, 140, 208, 54, 65, 66 >>
   :> << 37, 176, 81, 122, 169, 141, 33, 210, 170, 71, 114, 224, 53, 234, 133, 254,
         199, 8, 207, 12, 130, 47, 197, 218, 170, 2, 250, 3, 157, 180, 15, 228 >> )
  @@
  (   << 255, 255, 255, 255, 255, 255, 255, 255, 255, 255, 255, 255, 255, 255, 255, 255,
         0, 0, 0, 0, 0, 0, 0, 0, 0, 0, 0, 0, 0, 0, 0, 0 >>
   :> << 80, 168, 162, 31, 177, 61, 77, 46, 3, 3, 126, 57, 62, 92, 96, 221,
         185, 249, 45, 151, 181, 92, 138, 167, 126, 149, 160, 98, 66, 21, 215, 161 >> )
  @@
  (   << 255, 255, 255, 255, 255, 255, 255, 255, 255, 255, 255, 255, 255, 255, 255, 255,
         255, 255, 255, 255, 255, 255, 255, 255, 255, 255, 255, 255, 255, 255, 255, 255 >>
   :> << 118, 161, 89, 32, 68, 166, 228, 245, 17, 38, 91, 202, 115, 166, 4, 217,
         11, 5, 41, 209, 223, 96, 43, 227, 10, 25, 169, 37, 118, 96, 209, 245 >> )

\* whether the table above agrees with the computation at seed
KnownKeypairAgrees(seed) ==
  KnownKeypairs[seed] = ge_scalarmult_base(ed25519_clamp(SHA_512(seed)))

\* Botan::ed25519_gen_keypair: the 32-byte public key of a seed.  Any seed
\* is accepted: az = SHA-512(seed), clamped, and pk = az * B
ed25519_gen_keypair(seed) ==
  Known(KnownKeypairs, seed, 
        Strict(seed, LAMBDA s : ge_scalarmult_base(ed25519_clamp(SHA_512(s)))))

\* ------------------------------------------------------------------------
\* Keccak-256 (Botan "Keccak-1600(256)", sha3_256 of keccak-tiny)
\* ------------------------------------------------------------------------
\* The state is 200 bytes, 25 lanes of 8 bytes; a lane is a little-endian
\* uint64, so byte j of lane (x, y) is bit 8j .. 8j + 7 of it.
\* the rate of a sponge with 256 bits of output: 200 - 2 * 32 bytes
KECCAK_RATE == 200 - (2 * 32)

\* the round constants, least significant byte first
KECCAK_RC ==
  << << 1, 0, 0, 0, 0, 0, 0, 0 >>,
     << 130, 128, 0, 0, 0, 0, 0, 0 >>,
     << 138, 128, 0, 0, 0, 0, 0, 128 >>,
     << 0, 128, 0, 128, 0, 0, 0, 128 >>,
     << 139, 128, 0, 0, 0, 0, 0, 0 >>,
     << 1, 0, 0, 128, 0, 0, 0, 0 >>,
     << 129, 128, 0, 128, 0, 0, 0, 128 >>,
     << 9, 128, 0, 0, 0, 0, 0, 128 >>,
     << 138, 0, 0, 0, 0, 0, 0, 0 >>,
     << 136, 0, 0, 0, 0, 0, 0, 0 >>,
     << 9, 128, 0, 128, 0, 0, 0, 0 >>,
     << 10, 0, 0, 128, 0, 0, 0, 0 >>,
     << 139, 128, 0, 128, 0, 0, 0, 0 >>,
     << 139, 0, 0, 0, 0, 0, 0, 128 >>,
     << 137, 128, 0, 0, 0, 0, 0, 128 >>,
     << 3, 128, 0, 0, 0, 0, 0, 128 >>,
     << 2, 128, 0, 0, 0, 0, 0, 128 >>,
     << 128, 0, 0, 0, 0, 0, 0, 128 >>,
     << 10, 128, 0, 0, 0, 0, 0, 0 >>,
     << 10, 0, 0, 128, 0, 0, 0, 128 >>,
     << 129, 128, 0, 128, 0, 0, 0, 128 >>,
     << 128, 128, 0, 0, 0, 0, 0, 128 >>,
     << 1, 0, 0, 128, 0, 0, 0, 0 >>,
     << 8, 128, 0, 128, 0, 0, 0, 128 >> >>

\* the rotation of lane x + 5y
KECCAK_RHO ==
  << 0, 1, 62, 28, 27, 36, 44, 6, 55, 20, 3, 10, 43, 25, 39,
     41, 45, 15, 21, 8, 18, 2, 61, 56, 14 >>

\* a ^ b and ~a & b of two bytes
keccak_xor(a, b) == IF a + b >= 0 THEN Xor8[a][b] ELSE 0
keccak_andn(a, b) == IF a + b >= 0 THEN And8[255 - a][b] ELSE 0

\* byte j of lane (x, y); of lane x of five lanes when y = 0
keccak_byte(a, x, y, j) == byte_at(a, 8 * ((x % 5) + 5 * (y % 5)) + (j % 8) + 1)

\* byte j of lane (x, y) rotated left by n bits
keccak_rol_byte(a, x, y, j, n) ==
  (keccak_byte(a, x, y, j + 8 - (n \div 8)) % 2^(8 - (n % 8))) * 2^(n % 8)
  + (keccak_byte(a, x, y, j + 7 - (n \div 8)) \div 2^(8 - (n % 8)))

\* theta: C[x] = a[x][0] ^ .. ^ a[x][4]
keccak_theta_C(a) ==
  [k \in 1..40 |->
     keccak_xor(keccak_xor(keccak_xor(keccak_xor(
       keccak_byte(a, (k - 1) \div 8, 0, k - 1), keccak_byte(a, (k - 1) \div 8, 1, k - 1)),
       keccak_byte(a, (k - 1) \div 8, 2, k - 1)), keccak_byte(a, (k - 1) \div 8, 3, k - 1)),
       keccak_byte(a, (k - 1) \div 8, 4, k - 1))]

\* theta: D[x] = C[x - 1] ^ rol(C[x + 1], 1)
keccak_theta_D(C) ==
  [k \in 1..40 |->
     keccak_xor(keccak_byte(C, ((k - 1) \div 8) + 4, 0, k - 1),
                keccak_rol_byte(C, ((k - 1) \div 8) + 1, 0, k - 1, 1))]

\* theta: a[x][y] ^= D[x]
keccak_theta(a) ==
  With(keccak_theta_C(a), LAMBDA C :
  With(keccak_theta_D(C), LAMBDA D :
    [k \in 1..200 |-> keccak_xor(byte_at(a, k), keccak_byte(D, (k - 1) \div 8, 0, k - 1))]))

\* rho and pi: lane (x, y), rotated, goes to (y, 2x + 3y); the lane that
\* arrives at (X, Y) is ((X + 3Y) mod 5, X)
keccak_rho_pi(a) ==
  [k \in 1..200 |->
     keccak_rol_byte(a, (((k - 1) \div 8) % 5) + 3 * ((k - 1) \div 40), ((k - 1) \div 8) % 5,
                     k - 1,
                     byte_at(KECCAK_RHO, ((((((k - 1) \div 8) % 5) + 3 * ((k - 1) \div 40)) % 5)
                                         + 5 * (((k - 1) \div 8) % 5)) + 1))]

\* chi: a[x] = b[x] ^ (~b[x + 1] & b[x + 2]) along each row
keccak_chi(b) ==
  [k \in 1..200 |->
     keccak_xor(byte_at(b, k),
                keccak_andn(keccak_byte(b, ((k - 1) \div 8) + 1, (k - 1) \div 40, k - 1),
                            keccak_byte(b, ((k - 1) \div 8) + 2, (k - 1) \div 40, k - 1)))]

\* iota: a[0][0] ^= RC[round]
keccak_iota(a, round) ==
  [k \in 1..200 |-> IF k <= 8 THEN keccak_xor(byte_at(a, k), byte_at(byte_at(KECCAK_RC, round + 1), k)) ELSE byte_at(a, k)]

keccak_round(a, round) ==
  With(keccak_theta(a), LAMBDA t :
  With(keccak_rho_pi(t), LAMBDA b :
  With(keccak_chi(b), LAMBDA c : keccak_iota(c, round))))

\* rounds from .. to - 1
RECURSIVE keccak_rounds(_, _, _)
keccak_rounds(a, from, to) ==
  IF to <= from THEN a
  ELSE IF from + 1 = to THEN keccak_round(a, from)
  ELSE With(keccak_rounds(a, from, (from + to) \div 2),
            LAMBDA half : keccak_rounds(half, (from + to) \div 2, to))

keccakf(a) == keccak_rounds(a, 0, 24)

\* the state with a block of rate bytes xored in
keccak_xorin(a, block) ==
  [k \in 1..200 |-> IF k <= KECCAK_RATE THEN keccak_xor(byte_at(a, k), byte_at(block, k)) ELSE byte_at(a, k)]

\* the last block: the remaining bytes, 0x01 after them, 0x80 on the last byte
keccak_pad(m, from) ==
  [k \in 1..KECCAK_RATE |->
     keccak_xor(IF from + k - 1 <= Len(m) THEN m[from + k - 1]
                ELSE IF from + k - 1 = Len(m) + 1 THEN 1 ELSE 0,
                IF k = KECCAK_RATE THEN 128 ELSE 0)]

RECURSIVE keccak_absorb(_, _, _)
keccak_absorb(a, m, from) ==
  IF Len(m) - from + 1 >= KECCAK_RATE
  THEN With(keccakf(keccak_xorin(a, [k \in 1..KECCAK_RATE |-> m[from + k - 1]])),
            LAMBDA n : keccak_absorb(n, m, from + KECCAK_RATE))
  ELSE keccakf(keccak_xorin(a, keccak_pad(m, from)))

\* sha3_256 of keccak-tiny (Keccak-256: padding byte 0x01)
keccak_squeeze(a, n) == [k \in 1..n |-> byte_at(a, k)]

sha3_256(m) ==
  Strict(m, LAMBDA msg :
    keccak_squeeze(keccak_absorb([k \in 1..200 |-> 0], msg, 1), 32))

\* sha3_256 of the messages the calls below hash and of messages of the
\* repository's tests
KnownDigests ==
  (   << >>
   :> << 197, 210, 70, 1, 134, 247, 35, 60, 146, 126, 125, 178, 220, 199, 3, 192,
         229, 0, 182, 83, 202, 130, 39, 59, 123, 250, 216, 4, 93, 133, 164, 112 >> )
  @@
  (   << 0 >>
   :> << 188, 54, 120, 158, 122, 30, 40, 20, 54, 70, 66, 41, 130, 143, 129, 125,
         102, 18, 247, 180, 119, 214, 101, 145, 255, 150, 169, 224, 100, 188, 201, 138 >> )
  @@
  (   << 255 >>
   :> << 139, 26, 148, 76, 241, 58, 154, 28, 8, 250, 203, 44, 158, 152, 98, 62,
         243, 37, 77, 45, 219, 72, 17, 56, 133, 195, 232, 233, 127, 236, 141, 185 >> )
  @@
  (   << 0, 255 >>
   :> << 0, 80, 192, 187, 26, 127, 68, 52, 15, 255, 88, 220, 114, 80, 236, 136,
         161, 39, 173, 24, 38, 122, 28, 173, 187, 8, 57, 213, 214, 117, 102, 216 >> )
  @@
  (   << 0, 0, 255 >>
   :> << 41, 240, 152, 109, 205, 19, 43, 19, 92, 135, 144, 245, 122, 165, 217, 156,
         46, 150, 188, 105, 204, 131, 242, 71, 8, 141, 11, 221, 29, 223, 12, 219 >> )
  @@
  (   << 1, 2, 44 >>
   :> << 246, 44, 183, 140, 130, 33, 165, 218, 98, 237, 146, 133, 100, 9, 72, 47,
         155, 56, 8, 38, 120, 238, 51, 42, 143, 210, 182, 162, 220, 134, 141, 8 >> )
  @@
  (   << 7, 255, 8 >>
   :> << 193, 199, 192, 255, 60, 43, 72, 107, 102, 188, 228, 11, 46, 195, 72, 220,
         237, 91, 144, 159, 35, 166, 248, 88, 211, 97, 77, 26, 137, 237, 38, 206 >> )
  @@
  (   << 97, 98, 99 >>
   :> << 78, 3, 101, 122, 234, 69, 169, 79, 199, 212, 123, 168, 38, 200, 214, 103,
         192, 209, 230, 227, 58, 100, 160, 54, 236, 68, 245, 143, 161, 45, 108, 69 >> )
  @@
  (   << 222, 173, 190, 239 >>
   :> << 212, 253, 78, 24, 145, 50, 39, 48, 54, 68, 159, 201, 225, 17, 152, 199,
         57, 22, 27, 76, 1, 22, 169, 162, 220, 205, 250, 28, 73, 32, 6, 241 >> )
  @@
  (   << 104, 101, 108, 108, 111 >>
   :> << 28, 138, 255, 149, 6, 133, 194, 237, 75, 195, 23, 79, 52, 114, 40, 123,
         86, 217, 81, 123, 156, 148, 129, 39, 49, 154, 9, 167, 163, 109, 234, 200 >> )
  @@
  (   << 48, 120, 49, 50, 51, 52 >>
   :> << 26, 199, 209, 184, 27, 123, 161, 2, 91, 54, 204, 184, 103, 35, 218, 110,
         229, 168, 114, 89, 241, 194, 253, 90, 190, 105, 211, 32, 11, 81, 46, 200 >> )
  @@
  (   << 68, 69, 65, 68, 66, 69, 69, 70 >>
   :> << 26, 193, 237, 42, 223, 148, 100, 160, 56, 204, 159, 226, 184, 11, 74, 4,
         69, 3, 255, 19, 232, 15, 153, 254, 102, 26, 138, 65, 99, 138, 95, 96 >> )
  @@
  (   << 100, 101, 97, 100, 98, 101, 101, 102 >>
   :> << 159, 36, 197, 46, 15, 205, 26, 198, 150, 208, 4, 5, 195, 189, 90, 220,
         85, 140, 72, 147, 105, 25, 172, 90, 179, 113, 143, 203, 125, 112, 249, 63 >> )
  @@
  (   << 72, 195, 169, 226, 130, 172, 228, 184, 150 >>
   :> << 25, 141, 33, 201, 28, 254, 154, 196, 58, 119, 1, 86, 249, 38, 147, 25,
         122, 228, 48, 112, 245, 196, 218, 241, 231, 251, 208, 254, 133, 148, 212, 149 >> )
  @@
  (   << 0, 0, 0, 0, 0, 0, 0, 0, 0, 0, 0, 0, 0, 0, 0, 0,
         0, 0, 0, 0, 0, 0, 0, 0, 0, 0, 0, 0, 0, 0, 0, 0,
         0, 0, 0, 0, 0, 0, 0, 0, 0, 0, 0, 0, 0, 0, 0, 0,
         0, 0, 0, 0, 0, 0, 0, 0, 0, 0, 0, 0, 0, 0, 0, 0 >>
   :> << 173, 50, 40, 182, 118, 247, 211, 205, 66, 132, 165, 68, 63, 23, 241, 150,
         43, 54, 228, 145, 179, 10, 64, 178, 64, 88, 73, 229, 151, 186, 95, 181 >> )
  @@
  (   << 4, 121, 190, 102, 126, 249, 220, 187, 172, 85, 160, 98, 149, 206, 135, 11,
         7, 2, 155, 252, 219, 45, 206, 40, 217, 89, 242, 129, 91, 22, 248, 23,
         152, 72, 58, 218, 119, 38, 163, 196, 101, 93, 164, 251, 252, 14, 17, 8,
         168, 253, 23, 180, 72, 166, 133, 84, 25, 156, 71, 208, 143, 251, 16, 212 >>
   :> << 83, 240, 77, 67, 193, 104, 233, 114, 120, 9, 167, 73, 202, 192, 53, 249,
         251, 247, 163, 66, 158, 83, 35, 93, 174, 156, 129, 226, 9, 140, 143, 57 >> )
  @@
  (   << 18, 18, 18, 18, 18, 18, 18, 18, 18, 18, 18, 18, 18, 18, 18, 18,
         18, 18, 18, 18, 18, 18, 18, 18, 18, 18, 18, 18, 18, 18, 18, 18,
         53, 142, 4, 62, 18, 94, 169, 195, 49, 239, 164, 222, 54, 171, 136, 80,
         58, 126, 169, 45, 252, 159, 142, 33, 243, 68, 215, 246, 191, 42, 202, 0 >>
   :> << 1, 105, 209, 177, 107, 222, 235, 164, 164, 83, 230, 168, 166, 104, 197, 64,
         193, 239, 234, 194, 61, 58, 110, 13, 83, 243, 80, 41, 226, 151, 150, 159 >> )
  @@
  (   << 18, 18, 18, 18, 18, 18, 18, 18, 18, 18, 18, 18, 18, 18, 18, 18,
         18, 18, 18, 18, 18, 18, 18, 18, 18, 18, 18, 18, 18, 18, 18, 18,
         53, 142, 4, 62, 18, 94, 169, 195, 49, 239, 164, 222, 54, 171, 136, 80,
         58, 126, 169, 45, 252, 159, 142, 33, 243, 68, 215, 246, 191, 42, 202, 148 >>
   :> << 62, 250, 93, 209, 148, 76, 231, 31, 99, 18, 90, 98, 51, 192, 246, 183,
         66, 160, 67, 177, 85, 121, 135, 86, 164, 250, 205, 8, 115, 99, 79, 254 >> )
  @@
  (   << 18, 18, 18, 18, 18, 18, 18, 18, 18, 18, 18, 18, 18, 18, 18, 18,
         18, 18, 18, 18, 18, 18, 18, 18, 18, 18, 18, 18, 18, 18, 18, 18,
         53, 142, 4, 62, 18, 94, 169, 195, 49, 239, 164, 222, 54, 171, 136, 80,
         58, 126, 169, 45, 252, 159, 142, 33, 243, 68, 215, 246, 191, 42, 202, 170 >>
   :> << 30, 147, 228, 165, 133, 10, 29, 125, 180, 188, 85, 85, 189, 115, 145, 25,
         38, 196, 37, 231, 186, 225, 154, 10, 25, 98, 243, 200, 49, 109, 151, 228 >> )
  @@
  (   << 41, 104, 159, 107, 121, 168, 221, 104, 96, 104, 194, 238, 174, 151, 253, 135,
         105, 173, 59, 166, 92, 181, 56, 31, 131, 131, 88, 168, 4, 90, 53, 142,
         227, 186, 23, 57, 198, 137, 199, 128, 94, 49, 115, 79, 182, 7, 47, 135,
         38, 29, 18, 86, 153, 83, 112, 213, 87, 37, 203, 160, 13, 16, 189, 208 >>
   :> << 184, 215, 134, 244, 188, 124, 102, 8, 64, 119, 57, 6, 177, 240, 186, 187,
         181, 14, 140, 243, 74, 17, 37, 145, 234, 22, 143, 233, 49, 94, 182, 251 >> )
  @@
  (   << 58, 68, 61, 131, 129, 166, 121, 138, 112, 198, 255, 147, 4, 189, 200, 203,
         1, 99, 194, 50, 17, 209, 22, 40, 250, 229, 46, 249, 224, 220, 161, 26,
         0, 28, 240, 102, 213, 106, 129, 86, 252, 32, 28, 213, 223, 138, 54, 239,
         105, 78, 236, 210, 88, 144, 63, 202, 112, 134, 193, 250, 231, 68, 30, 0 >>
   :> << 183, 135, 203, 91, 133, 25, 195, 147, 154, 141, 141, 79, 182, 134, 43, 93,
         63, 15, 181, 153, 180, 172, 201, 151, 238, 253, 75, 194, 208, 117, 232, 161 >> )
  @@
  (   << 58, 68, 61, 131, 129, 166, 121, 138, 112, 198, 255, 147, 4, 189, 200, 203,
         1, 99, 194, 50, 17, 209, 22, 40, 250, 229, 46, 249, 224, 220, 161, 26,
         0, 28, 240, 102, 213, 106, 129, 86, 252, 32, 28, 213, 223, 138, 54, 239,
         105, 78, 236, 210, 88, 144, 63, 202, 112, 134, 193, 250, 231, 68, 30, 29 >>
   :> << 194, 175, 94, 216, 152, 158, 10, 222, 61, 199, 49, 191, 47, 1, 92, 96,
         224, 190, 17, 107, 31, 12, 213, 52, 112, 77, 185, 201, 33, 24, 251, 106 >> )
  @@
  (   << 58, 68, 61, 131, 129, 166, 121, 138, 112, 198, 255, 147, 4, 189, 200, 203,
         1, 99, 194, 50, 17, 209, 22, 40, 250, 229, 46, 249, 224, 220, 161, 26,
         0, 28, 240, 102, 213, 106, 129, 86, 252, 32, 28, 213, 223, 138, 54, 239,
         105, 78, 236, 210, 88, 144, 63, 202, 112, 134, 193, 250, 231, 68, 30, 170 >>
   :> << 9, 133, 222, 176, 212, 91, 168, 185, 132, 182, 197, 34, 82, 7, 14, 184,
         235, 73, 164, 190, 233, 148, 209, 245, 48, 61, 120, 243, 77, 220, 44, 61 >> )
  @@
  (   << 79, 53, 91, 220, 183, 204, 10, 247, 40, 239, 60, 206, 185, 97, 93, 144,
         104, 75, 181, 178, 202, 95, 133, 154, 176, 240, 183, 4, 7, 88, 113, 170,
         56, 91, 107, 27, 142, 173, 128, 156, 166, 116, 84, 217, 104, 63, 207, 43,
         160, 52, 86, 214, 254, 44, 74, 190, 43, 7, 240, 251, 219, 178, 241, 193 >>
   :> << 150, 155, 10, 17, 184, 165, 107, 172, 241, 172, 24, 242, 25, 231, 227, 118,
         231, 194, 19, 183, 231, 231, 228, 108, 199, 10, 93, 208, 134, 218, 255, 42 >> )
  @@
  (   << 89, 6, 79, 41, 224, 11, 106, 92, 197, 90, 59, 105, 217, 207, 211, 69,
         122, 231, 11, 209, 105, 178, 183, 20, 3, 106, 227, 169, 101, 128, 94, 178,
         90, 153, 202, 34, 26, 222, 26, 236, 235, 230, 17, 29, 112, 105, 125, 17,
         116, 162, 136, 205, 27, 177, 119, 222, 74, 20, 240, 110, 172, 198, 49, 216 >>
   :> << 192, 166, 202, 100, 175, 106, 46, 244, 115, 12, 192, 231, 95, 184, 197, 165,
         137, 146, 176, 40, 245, 173, 191, 211, 117, 180, 87, 251, 188, 161, 89, 193 >> )
  @@
  (   << 116, 68, 50, 88, 73, 46, 83, 213, 185, 126, 213, 232, 23, 78, 197, 162,
         141, 70, 204, 211, 109, 127, 11, 5, 84, 162, 18, 155, 213, 149, 207, 53,
         99, 107, 74, 37, 48, 30, 128, 241, 119, 167, 69, 166, 73, 147, 218, 70,
         238, 207, 216, 216, 210, 240, 226, 123, 129, 140, 132, 223, 40, 11, 225, 0 >>
   :> << 51, 217, 15, 223, 40, 58, 89, 149, 33, 109, 101, 16, 228, 90, 240, 139,
         219, 225, 40, 231, 117, 89, 94, 29, 212, 63, 233, 38, 135, 248, 247, 250 >> )
  @@
  (   << 116, 68, 50, 88, 73, 46, 83, 213, 185, 126, 213, 232, 23, 78, 197, 162,
         141, 70, 204, 211, 109, 127, 11, 5, 84, 162, 18, 155, 213, 149, 207, 53,
         99, 107, 74, 37, 48, 30, 128, 241, 119, 167, 69, 166, 73, 147, 218, 70,
         238, 207, 216, 216, 210, 240, 226, 123, 129, 140, 132, 223, 40, 11, 225, 25 >>
   :> << 93, 178, 105, 218, 122, 213, 1, 146, 191, 41, 82, 185, 154, 253, 96, 237,
         219, 132, 227, 83, 11, 58, 15, 111, 133, 56, 71, 101, 11, 251, 72, 46 >> )
  @@
  (   << 116, 68, 50, 88, 73, 46, 83, 213, 185, 126, 213, 232, 23, 78, 197, 162,
         141, 70, 204, 211, 109, 127, 11, 5, 84, 162, 18, 155, 213, 149, 207, 53,
         99, 107, 74, 37, 48, 30, 128, 241, 119, 167, 69, 166, 73, 147, 218, 70,
         238, 207, 216, 216, 210, 240, 226, 123, 129, 140, 132, 223, 40, 11, 225, 170 >>
   :> << 197, 141, 230, 96, 240, 193, 171, 213, 108, 80, 89, 31, 109, 249, 60, 89,
         246, 79, 58, 1, 17, 5, 80, 137, 177, 63, 175, 231, 208, 245, 4, 19 >> )
  @@
  (   << 121, 190, 102, 0, 249, 220, 187, 172, 85, 160, 98, 149, 206, 135, 11, 7,
         2, 155, 252, 219, 45, 206, 40, 217, 89, 242, 129, 91, 22, 248, 23, 152,
         255, 22, 214, 183, 175, 190, 183, 119, 159, 213, 162, 183, 69, 26, 194, 56,
         16, 200, 123, 34, 62, 155, 9, 204, 136, 193, 240, 4, 178, 54, 219, 0 >>
   :> << 187, 26, 151, 114, 211, 51, 108, 132, 238, 206, 227, 12, 109, 188, 198, 96,
         5, 28, 110, 56, 131, 53, 135, 3, 0, 25, 29, 35, 177, 115, 44, 121 >> )
  @@
  (   << 121, 190, 102, 0, 249, 220, 187, 172, 85, 160, 98, 149, 206, 135, 11, 7,
         2, 155, 252, 219, 45, 206, 40, 217, 89, 242, 129, 91, 22, 248, 23, 152,
         255, 22, 214, 183, 175, 190, 183, 119, 159, 213, 162, 183, 69, 26, 194, 56,
         16, 200, 123, 34, 62, 155, 9, 204, 136, 193, 240, 4, 178, 54, 219, 130 >>
   :> << 159, 58, 92, 71, 211, 192, 42, 169, 112, 22, 198, 235, 166, 51, 69, 135,
         90, 108, 38, 184, 200, 4, 81, 211, 242, 94, 253, 25, 61, 205, 241, 73 >> )
  @@
  (   << 121, 190, 102, 0, 249, 220, 187, 172, 85, 160, 98, 149, 206, 135, 11, 7,
         2, 155, 252, 219, 45, 206, 40, 217, 89, 242, 129, 91, 22, 248, 23, 152,
         255, 22, 214, 183, 175, 190, 183, 119, 159, 213, 162, 183, 69, 26, 194, 56,
         16, 200, 123, 34, 62, 155, 9, 204, 136, 193, 240, 4, 178, 54, 219, 170 >>
   :> << 24, 180, 251, 141, 181, 53, 59, 254, 244, 144, 189, 197, 83, 134, 30, 60,
         177, 33, 72, 242, 59, 245, 81, 80, 116, 192, 173, 25, 96, 24, 68, 67 >> )
  @@
  (   << 121, 190, 102, 126, 249, 220, 187, 172, 85, 160, 98, 149, 206, 135, 11, 7,
         2, 155, 252, 219, 45, 206, 40, 217, 89, 242, 129, 91, 22, 248, 23, 152,
         72, 58, 218, 119, 38, 163, 196, 101, 93, 164, 251, 252, 14, 17, 8, 168,
         253, 23, 180, 72, 166, 133, 84, 25, 156, 71, 208, 143, 251, 16, 212, 0 >>
   :> << 187, 170, 70, 95, 124, 100, 72, 126, 46, 138, 202, 217, 102, 34, 192, 34,
         131, 205, 81, 245, 13, 129, 56, 206, 96, 130, 86, 197, 159, 158, 161, 40 >> )
  @@
  (   << 121, 190, 102, 126, 249, 220, 187, 172, 85, 160, 98, 149, 206, 135, 11, 7,
         2, 155, 252, 219, 45, 206, 40, 217, 89, 242, 129, 91, 22, 248, 23, 152,
         72, 58, 218, 119, 38, 163, 196, 101, 93, 164, 251, 252, 14, 17, 8, 168,
         253, 23, 180, 72, 166, 133, 84, 25, 156, 71, 208, 143, 251, 16, 212, 170 >>
   :> << 69, 155, 200, 115, 5, 3, 127, 76, 239, 84, 68, 242, 108, 73, 111, 207,
         51, 156, 53, 203, 5, 101, 118, 216, 118, 230, 100, 154, 235, 65, 124, 188 >> )
  @@
  (   << 121, 190, 102, 126, 249, 220, 187, 172, 85, 160, 98, 149, 206, 135, 11, 7,
         2, 155, 252, 219, 45, 206, 40, 217, 89, 242, 129, 91, 22, 248, 23, 152,
         72, 58, 218, 119, 38, 163, 196, 101, 93, 164, 251, 252, 14, 17, 8, 168,
         253, 23, 180, 72, 166, 133, 84, 25, 156, 71, 208, 143, 251, 16, 212, 184 >>
   :> << 192, 166, 196, 36, 172, 113, 87, 174, 64, 131, 152, 223, 126, 95, 69, 82,
         9, 26, 105, 18, 93, 93, 252, 183, 184, 194, 101, 144, 41, 57, 91, 223 >> )
  @@
  (   << 121, 190, 102, 126, 249, 220, 187, 172, 85, 160, 98, 149, 206, 135, 11, 7,
         2, 155, 252, 219, 45, 206, 40, 217, 89, 242, 129, 91, 22, 248, 23, 152,
         183, 197, 37, 136, 217, 92, 59, 154, 162, 91, 4, 3, 241, 238, 247, 87,
         2, 232, 75, 183, 89, 122, 171, 230, 99, 184, 47, 111, 4, 239, 39, 0 >>
   :> << 16, 92, 20, 255, 181, 109, 116, 214, 139, 35, 96, 112, 110, 244, 27, 212,
         73, 165, 130, 237, 129, 134, 56, 224, 164, 112, 166, 60, 37, 128, 49, 121 >> )
  @@
  (   << 121, 190, 102, 126, 249, 220, 187, 172, 85, 160, 98, 149, 206, 135, 11, 7,
         2, 155, 252, 219, 45, 206, 40, 217, 89, 242, 129, 91, 22, 248, 23, 152,
         183, 197, 37, 136, 217, 92, 59, 154, 162, 91, 4, 3, 241, 238, 247, 87,
         2, 232, 75, 183, 89, 122, 171, 230, 99, 184, 47, 111, 4, 239, 39, 119 >>
   :> << 184, 232, 252, 150, 43, 245, 204, 202, 108, 111, 115, 210, 128, 192, 219, 242,
         57, 34, 64, 113, 197, 157, 216, 151, 10, 185, 213, 66, 227, 65, 74, 178 >> )
  @@
  (   << 121, 190, 102, 126, 249, 220, 187, 172, 85, 160, 98, 149, 206, 135, 11, 7,
         2, 155, 252, 219, 45, 206, 40, 217, 89, 242, 129, 91, 22, 248, 23, 152,
         183, 197, 37, 136, 217, 92, 59, 154, 162, 91, 4, 3, 241, 238, 247, 87,
         2, 232, 75, 183, 89, 122, 171, 230, 99, 184, 47, 111, 4, 239, 39, 170 >>
   :> << 21, 232, 120, 132, 142, 34, 87, 220, 93, 178, 36, 203, 92, 179, 94, 132,
         170, 216, 92, 71, 209, 97, 189, 213, 202, 154, 157, 85, 143, 157, 129, 128 >> )
  @@
  (   << 130, 130, 38, 50, 18, 198, 9, 217, 234, 42, 110, 62, 23, 45, 226, 56,
         216, 195, 156, 171, 213, 172, 28, 161, 6, 70, 226, 63, 213, 245, 21, 8,
         17, 248, 168, 9, 133, 87, 223, 228, 94, 130, 86, 232, 48, 182, 10, 206,
         98, 214, 19, 172, 47, 123, 23, 190, 211, 27, 110, 175, 246, 226, 108, 175 >>
   :> << 253, 17, 153, 8, 169, 22, 25, 29, 244, 5, 136, 236, 252, 50, 64, 38,
         103, 24, 45, 17, 178, 159, 171, 92, 94, 50, 62, 128, 72, 62, 120, 0 >> )
  @@
  (   << 141, 181, 91, 5, 219, 134, 192, 177, 120, 108, 164, 159, 9, 93, 118, 52,
         76, 158, 96, 86, 178, 240, 39, 1, 167, 231, 243, 194, 10, 171, 253, 145,
         62, 187, 225, 72, 221, 23, 197, 101, 81, 165, 41, 82, 55, 16, 113, 166,
         198, 4, 179, 243, 171, 232, 242, 200, 250, 116, 33, 88, 234, 109, 215, 212 >>
   :> << 163, 62, 73, 50, 243, 247, 52, 158, 182, 59, 55, 158, 9, 35, 29, 167,
         177, 154, 1, 111, 158, 87, 109, 35, 177, 98, 119, 6, 47, 77, 70, 168 >> )
  @@
  (   << 157, 97, 177, 157, 239, 253, 90, 96, 186, 132, 74, 244, 146, 236, 44, 196,
         68, 73, 197, 105, 123, 50, 105, 25, 112, 59, 172, 3, 28, 174, 127, 96,
         157, 97, 177, 157, 239, 253, 90, 96, 186, 132, 74, 244, 146, 236, 44, 196,
         68, 73, 197, 105, 123, 50, 105, 25, 112, 59, 172, 3, 28, 174, 127, 96 >>
   :> << 14, 165, 223, 158, 77, 47, 58, 247, 203, 121, 79, 89, 128, 203, 177, 82,
         239, 84, 19, 155, 206, 97, 92, 39, 166, 117, 156, 53, 87, 100, 21, 2 >> )
  @@
  (   << 176, 251, 101, 213, 255, 141, 111, 158, 112, 98, 221, 1, 116, 147, 169, 215,
         226, 249, 196, 49, 154, 75, 114, 113, 144, 102, 224, 8, 225, 127, 92, 253,
         137, 108, 124, 18, 174, 245, 232, 52, 68, 97, 95, 188, 50, 239, 143, 193,
         69, 211, 28, 204, 49, 234, 184, 148, 19, 150, 31, 51, 150, 97, 90, 246 >>
   :> << 173, 88, 51, 95, 21, 182, 14, 58, 184, 57, 95, 47, 67, 222, 15, 66,
         77, 235, 152, 156, 63, 51, 205, 168, 54, 127, 146, 105, 170, 136, 90, 18 >> )
  @@
  (   << 178, 55, 144, 164, 43, 230, 62, 27, 37, 26, 214, 201, 79, 222, 240, 114,
         113, 236, 10, 173, 163, 29, 182, 195, 232, 189, 50, 4, 63, 139, 227, 132,
         252, 107, 105, 73, 25, 213, 94, 219, 232, 213, 15, 136, 170, 129, 249, 69,
         23, 240, 4, 244, 20, 158, 203, 88, 209, 10, 71, 61, 235, 25, 136, 14 >>
   :> << 81, 49, 3, 157, 184, 148, 35, 89, 122, 136, 39, 124, 167, 30, 67, 190,
         51, 159, 151, 145, 35, 86, 65, 244, 87, 193, 186, 45, 168, 107, 158, 179 >> )
  @@
  (   << 185, 54, 206, 232, 108, 159, 135, 170, 93, 60, 111, 46, 132, 203, 90, 66,
         57, 165, 254, 80, 72, 10, 110, 198, 107, 112, 171, 91, 31, 74, 198, 115,
         12, 108, 81, 84, 33, 179, 39, 236, 29, 105, 64, 46, 83, 223, 180, 154,
         215, 56, 30, 176, 103, 179, 56, 253, 123, 12, 178, 34, 71, 34, 93, 71 >>
   :> << 212, 117, 220, 10, 195, 12, 106, 132, 85, 90, 99, 149, 31, 8, 115, 187,
         248, 70, 210, 124, 5, 11, 86, 185, 189, 205, 154, 161, 29, 254, 27, 9 >> )
  @@
  (   << 198, 4, 127, 148, 65, 237, 125, 109, 48, 69, 64, 110, 149, 192, 124, 216,
         92, 119, 142, 75, 140, 239, 60, 167, 171, 172, 9, 185, 92, 112, 158, 229,
         26, 225, 104, 254, 166, 61, 195, 57, 163, 197, 132, 25, 70, 108, 234, 238,
         247, 246, 50, 101, 50, 102, 208, 225, 35, 100, 49, 169, 80, 207, 229, 42 >>
   :> << 238, 223, 26, 156, 104, 179, 244, 168, 177, 161, 3, 43, 43, 90, 213, 196,
         121, 92, 2, 101, 20, 248, 49, 124, 122, 33, 94, 33, 141, 204, 214, 207 >> )
  @@
  (   << 224, 101, 115, 100, 249, 96, 58, 39, 109, 148, 147, 15, 144, 166, 177, 159,
         60, 228, 0, 26, 180, 148, 196, 253, 247, 255, 84, 22, 9, 224, 93, 46,
         72, 202, 100, 84, 164, 57, 15, 235, 18, 184, 234, 206, 187, 80, 59, 162,
         81, 127, 94, 36, 84, 215, 215, 126, 139, 68, 215, 204, 168, 247, 82, 205 >>
   :> << 163, 117, 233, 250, 151, 173, 54, 88, 147, 234, 126, 3, 205, 224, 110, 255,
         215, 201, 206, 188, 239, 106, 102, 94, 149, 119, 89, 116, 51, 23, 113, 20 >> )
  @@
  (   << 236, 227, 61, 183, 68, 143, 99, 244, 212, 96, 172, 139, 134, 189, 240, 47,
         166, 245, 195, 39, 154, 42, 93, 89, 223, 38, 130, 123, 236, 83, 21, 164,
         78, 184, 93, 64, 238, 77, 243, 167, 39, 42, 149, 150, 160, 188, 39, 9,
         20, 102, 114, 78, 147, 87, 24, 62, 85, 76, 158, 197, 253, 246, 208, 153 >>
   :> << 76, 55, 83, 83, 193, 38, 171, 123, 58, 56, 116, 191, 119, 39, 15, 13,
         37, 207, 36, 133, 172, 27, 177, 235, 175, 204, 198, 216, 236, 110, 72, 199 >> )
  @@
  (   << 255, 255, 255, 255, 255, 255, 255, 255, 255, 255, 255, 255, 255, 255, 255, 255,
         255, 255, 255, 255, 255, 255, 255, 255, 255, 255, 255, 255, 255, 255, 255, 255,
         255, 255, 255, 255, 255, 255, 255, 255, 255, 255, 255, 255, 255, 255, 255, 255,
         255, 255, 255, 255, 255, 255, 255, 255, 255, 255, 255, 255, 255, 255, 255, 255 >>
   :> << 189, 139, 21, 23, 115, 219, 190, 253, 123, 13, 246, 127, 45, 204, 72, 41,
         1, 114, 139, 109, 244, 119, 244, 251, 47, 25, 39, 51, 160, 5, 211, 150 >> )

\* whether the table above agrees with sha3_256 at m
KnownDigestAgrees(m) == KnownDigests[m] = sha3_256(m)

\* sha3_256 of the 64-byte messages a short write leaves to be hashed: for
\* each x || y[1..31] of a key the calls below parse, the digests of the 256
\* messages that end in byte 0, 1, ..., 255
KnownLastByteDigests ==
  (   << 18, 18, 18, 18, 18, 18, 18, 18, 18, 18, 18, 18, 18, 18, 18, 18,
         18, 18, 18, 18, 18, 18, 18, 18, 18, 18, 18, 18, 18, 18, 18, 18,
         53, 142, 4, 62, 18, 94, 169, 195, 49, 239, 164, 222, 54, 171, 136, 80,
         58, 126, 169, 45, 252, 159, 142, 33, 243, 68, 215, 246, 191, 42, 202 >>
   :> <<
      << 1, 105, 209, 177, 107, 222, 235, 164, 164, 83, 230, 168, 166, 104, 197, 64,
         193, 239, 234, 194, 61, 58, 110, 13, 83, 243, 80, 41, 226, 151, 150, 159 >>,
      << 144, 186, 89, 108, 248, 47, 236, 121, 183, 36, 235, 53, 117, 86, 207, 54,
         168, 89, 74, 213, 205, 206, 122, 230, 201, 95, 168, 184, 60, 30, 225, 79 >>,
      << 129, 97, 204, 235, 71, 138, 77, 36, 0, 62, 101, 149, 186, 191, 239, 167,
         43, 10, 4, 171, 70, 190, 134, 13, 92, 196, 127, 92, 218, 140, 100, 202 >>,
      << 128, 10, 105, 231, 35, 164, 104, 192, 101, 245, 251, 169, 149, 210, 77, 160,
         113, 87, 7, 204, 89, 65, 213, 206, 224, 239, 61, 13, 138, 186, 139, 52 >>,
      << 167, 78, 149, 42, 94, 42, 10, 63, 5, 234, 96, 202, 100, 67, 132, 232,
         202, 104, 64, 38, 176, 140, 153, 243, 251, 163, 10, 145, 170, 201, 130, 157 >>,
      << 145, 82, 125, 49, 204, 194, 47, 129, 85, 70, 35, 226, 189, 83, 126, 16,
         105, 33, 8, 102, 44, 132, 2, 164, 57, 83, 243, 186, 158, 252, 126, 187 >>,
      << 84, 217, 186, 236, 87, 236, 157, 21, 208, 11, 208, 6, 47, 183, 85, 37,
         175, 115, 73, 148, 146, 208, 250, 87, 110, 229, 162, 70, 180, 184, 217, 238 >>,
      << 125, 92, 255, 158, 219, 84, 137, 136, 134, 242, 15, 253, 152, 191, 11, 26,
         31, 208, 173, 195, 47, 66, 152, 70, 197, 79, 175, 76, 185, 65, 232, 79 >>,
      << 138, 159, 42, 23, 208, 28, 218, 76, 2, 219, 195, 50, 133, 211, 220, 151,
         243, 90, 105, 190, 94, 204, 125, 130, 80, 97, 107, 8, 32, 137, 16, 105 >>,
      << 228, 131, 14, 240, 246, 87, 108, 156, 227, 222, 105, 245, 97, 204, 218, 189,
         55, 41, 209, 88, 129, 33, 233, 105, 28, 188, 135, 16, 81, 66, 250, 129 >>,
      << 76, 250, 56, 252, 157, 21, 135, 60, 132, 75, 31, 55, 44, 86, 27, 255,
         249, 208, 119, 171, 119, 118, 100, 175, 192, 212, 183, 119, 222, 192, 8, 149 >>,
      << 147, 220, 17, 226, 102, 66, 241, 83, 251, 130, 179, 68, 60, 148, 244, 20,
         128, 233, 79, 144, 62, 234, 77, 70, 154, 173, 163, 250, 135, 84, 110, 116 >>,
      << 83, 65, 128, 186, 162, 75, 247, 25, 80, 133, 144, 81, 1, 90, 138, 83,
         153, 124, 167, 106, 206, 205, 69, 186, 206, 119, 53, 67, 209, 242, 159, 205 >>,
      << 69, 63, 173, 165, 60, 85, 211, 208, 243, 180, 74, 93, 85, 185, 95, 99,
         83, 254, 125, 217, 188, 175, 15, 227, 60, 249, 130, 31, 246, 160, 53, 161 >>,
      << 81, 47, 239, 209, 24, 212, 13, 206, 114, 137, 194, 199, 57, 111, 140, 137,
         23, 29, 69, 213, 99, 66, 72, 59, 148, 74, 206, 110, 106, 71, 61, 19 >>,
      << 149, 100, 195, 36, 166, 74, 53, 8, 149, 3, 105, 52, 84, 150, 78, 7,
         51, 228, 12, 223, 46, 121, 202, 189, 159, 127, 83, 89, 169, 3, 248, 50 >>,
      << 64, 174, 172, 180, 30, 48, 61, 243, 27, 18, 155, 147, 24, 119, 58, 252,
         94, 140, 28, 29, 39, 164, 215, 141, 52, 161, 5, 102, 66, 245, 196, 245 >>,
      << 102, 75, 193, 231, 139, 172, 167, 7, 232, 23, 6, 75, 47, 103, 125, 109,
         240, 72, 113, 42, 29, 108, 50, 30, 34, 91, 8, 3, 82, 62, 248, 105 >>,
      << 248, 41, 153, 69, 235, 90, 117, 217, 137, 5, 199, 127, 253, 2, 246, 191,
         200, 66, 24, 114, 235, 18, 11, 153, 226, 101, 243, 240, 77, 74, 97, 110 >>,
      << 134, 180, 6, 86, 225, 96, 67, 53, 175, 166, 225, 196, 117, 176, 61, 124,
         173, 241, 21, 182, 58, 202, 204, 136, 145, 246, 66, 202, 199, 127, 62, 123 >>,
      << 130, 110, 30, 94, 143, 157, 241, 118, 244, 56, 111, 27, 217, 224, 63, 26,
         5, 93, 141, 228, 228, 252, 115, 194, 106, 210, 170, 19, 241, 29, 128, 91 >>,
      << 206, 227, 200, 180, 228, 205, 134, 204, 14, 188, 126, 230, 56, 154, 10, 23,
         151, 182, 109, 0, 199, 135, 8, 242, 221, 32, 52, 41, 191, 205, 118, 3 >>,
      << 45, 80, 78, 179, 90, 75, 226, 209, 202, 182, 207, 182, 68, 69, 205, 36,
         204, 69, 244, 73, 234, 61, 35, 105, 72, 206, 59, 115, 106, 46, 54, 150 >>,
      << 184, 13, 188, 201, 15, 49, 0, 115, 134, 18, 109, 230, 159, 92, 12, 96,
         213, 242, 88, 132, 10, 76, 72, 254, 209, 226, 54, 90, 253, 86, 248, 42 >>,
      << 136, 189, 39, 140, 76, 168, 78, 155, 15, 69, 191, 10, 228, 19, 80, 10,
         249, 137, 101, 197, 1, 174, 174, 119, 181, 66, 55, 87, 98, 204, 166, 255 >>,
      << 88, 4, 60, 244, 224, 140, 174, 200, 51, 245, 89, 135, 102, 117, 63, 164,
         216, 44, 224, 100, 176, 43, 195, 247, 204, 10, 49, 44, 230, 243, 113, 135 >>,
      << 227, 155, 140, 173, 204, 96, 168, 62, 178, 222, 106, 2, 134, 212, 71, 249,
         110, 84, 250, 213, 25, 0, 157, 210, 101, 119, 105, 13, 27, 135, 107, 57 >>,
      << 138, 99, 222, 220, 254, 147, 20, 178, 182, 226, 97, 203, 31, 110, 93, 74,
         3, 14, 191, 199, 9, 59, 53, 151, 174, 167, 127, 237, 166, 220, 2, 156 >>,
      << 235, 144, 40, 0, 90, 165, 149, 142, 210, 171, 149, 182, 125, 25, 236, 125,
         129, 135, 213, 10, 151, 107, 47, 210, 229, 2, 196, 40, 45, 73, 211, 29 >>,
      << 130, 230, 226, 105, 154, 18, 13, 48, 15, 142, 91, 200, 72, 224, 146, 119,
         66, 121, 251, 129, 171, 133, 145, 255, 178, 185, 250, 1, 70, 122, 16, 168 >>,
      << 230, 209, 230, 43, 214, 142, 95, 120, 163, 181, 65, 243, 27, 95, 202, 160,
         16, 197, 224, 201, 84, 18, 112, 96, 10, 19, 57, 81, 212, 167, 132, 243 >>,
      << 43, 150, 176, 147, 4, 190, 18, 218, 229, 167, 98, 209, 254, 68, 14, 126,
         156, 81, 73, 11, 50, 216, 104, 41, 100, 235, 158, 253, 205, 187, 27, 239 >>,
      << 20, 149, 94, 165, 3, 143, 0, 23, 58, 215, 68, 135, 43, 215, 100, 236,
         135, 223, 63, 165, 182, 216, 192, 167, 188, 252, 129, 39, 125, 32, 222, 165 >>,
      << 126, 23, 127, 13, 224, 230, 103, 172, 87, 223, 8, 33, 206, 63, 121, 64,
         225, 135, 78, 188, 178, 61, 57, 48, 181, 91, 84, 11, 153, 33, 245, 133 >>,
      << 122, 214, 61, 78, 213, 165, 216, 223, 20, 159, 143, 215, 101, 86, 247, 116,
         144, 119, 186, 196, 216, 225, 197, 128, 31, 37, 138, 127, 44, 23, 100, 152 >>,
      << 184, 64, 89, 71, 236, 50, 239, 219, 93, 47, 224, 249, 8, 14, 170, 228,
         22, 234, 242, 203, 161, 170, 12, 242, 202, 11, 253, 39, 214, 37, 220, 12 >>,
      << 41, 244, 220, 173, 195, 195, 182, 164, 175, 59, 29, 185, 4, 178, 120, 1,
         139, 44, 162, 133, 170, 141, 154, 218, 239, 70, 53, 104, 87, 106, 171, 180 >>,
      << 56, 213, 28, 105, 19, 185, 132, 74, 178, 221, 110, 190, 177, 170, 151, 127,
         83, 74, 101, 123, 162, 159, 123, 156, 74, 47, 79, 224, 213, 71, 162, 172 >>,
      << 213, 246, 42, 11, 83, 188, 117, 123, 193, 195, 150, 212, 23, 76, 156, 250,
         114, 215, 54, 119, 8, 94, 143, 232, 198, 168, 50, 64, 142, 152, 63, 52 >>,
      << 184, 26, 152, 0, 34, 15, 100, 81, 222, 176, 155, 38, 3, 115, 115, 170,
         29, 186, 19, 152, 151, 153, 230, 253, 46, 151, 120, 132, 128, 187, 163, 193 >>,
      << 142, 108, 252, 203, 170, 34, 1, 200, 188, 132, 15, 243, 45, 41, 158, 42,
         49, 173, 68, 172, 111, 15, 152, 219, 186, 138, 210, 226, 210, 202, 126, 218 >>,
      << 108, 21, 97, 145, 161, 177, 54, 20, 136, 204, 29, 168, 188, 96, 1, 159,
         98, 127, 88, 2, 141, 59, 223, 136, 61, 255, 25, 6, 151, 223, 121, 178 >>,
      << 100, 40, 47, 76, 195, 202, 126, 97, 237, 150, 151, 234, 237, 7, 123, 181,
         121, 19, 102, 239, 142, 19, 190, 145, 106, 43, 45, 224, 165, 95, 42, 67 >>,
      << 114, 6, 36, 60, 29, 200, 138, 159, 98, 239, 208, 95, 136, 238, 81, 172,
         40, 108, 11, 74, 57, 58, 41, 206, 153, 222, 41, 168, 156, 102, 4, 91 >>,
      << 138, 57, 72, 0, 3, 92, 81, 44, 124, 161, 169, 128, 220, 153, 250, 168,
         162, 124, 90, 128, 44, 132, 171, 73, 30, 79, 101, 62, 154, 72, 192, 227 >>,
      << 184, 95, 185, 169, 112, 164, 53, 239, 32, 122, 15, 11, 89, 90, 248, 52,
         93, 135, 40, 93, 161, 59, 133, 215, 36, 147, 203, 19, 9, 99, 240, 177 >>,
      << 185, 16, 233, 55, 59, 236, 75, 51, 209, 92, 241, 120, 190, 223, 129, 203,
         33, 240, 132, 232, 207, 149, 117, 171, 147, 172, 230, 24, 108, 137, 93, 75 >>,
      << 152, 126, 211, 218, 15, 255, 149, 190, 89, 90, 217, 97, 245, 17, 96, 239,
         50, 118, 87, 229, 160, 194, 200, 72, 91, 31, 129, 235, 96, 63, 47, 30 >>,
      << 244, 59, 131, 19, 210, 225, 177, 166, 229, 22, 252, 0, 208, 222, 213, 211,
         22, 216, 138, 19, 96, 118, 223, 105, 172, 195, 214, 213, 68, 190, 91, 4 >>,
      << 59, 187, 171, 96, 14, 16, 116, 11, 82, 114, 219, 206, 206, 3, 57, 47,
         71, 142, 124, 130, 231, 136, 222, 211, 165, 199, 11, 70, 253, 71, 176, 68 >>,
      << 122, 1, 69, 244, 92, 219, 84, 173, 59, 171, 7, 215, 55, 96, 22, 177,
         248, 169, 154, 74, 144, 80, 130, 162, 119, 85, 131, 72, 120, 59, 98, 59 >>,
      << 27, 47, 225, 79, 131, 118, 7, 150, 12, 125, 10, 201, 218, 251, 132, 39,
         253, 208, 107, 229, 78, 53, 136, 65, 76, 170, 119, 6, 235, 43, 211, 232 >>,
      << 87, 251, 148, 25, 213, 102, 145, 33, 113, 222, 49, 132, 205, 54, 103, 248,
         206, 194, 51, 150, 77, 121, 127, 41, 33, 96, 149, 24, 79, 176, 80, 218 >>,
      << 135, 118, 220, 206, 58, 9, 64, 20, 182, 206, 182, 246, 74, 60, 68, 100,
         23, 203, 204, 253, 174, 226, 209, 208, 195, 229, 48, 254, 178, 29, 249, 79 >>,
      << 210, 232, 117, 11, 125, 248, 123, 233, 136, 54, 125, 49, 243, 183, 123, 64,
         31, 69, 31, 182, 42, 100, 131, 186, 22, 81, 152, 103, 115, 92, 198, 32 >>,
      << 179, 95, 42, 203, 173, 142, 135, 85, 253, 83, 190, 137, 192, 209, 119, 136,
         250, 150, 217, 66, 178, 90, 29, 46, 92, 235, 88, 103, 136, 95, 173, 185 >>,
      << 104, 241, 40, 114, 69, 208, 199, 232, 120, 197, 103, 252, 77, 190, 115, 213,
         246, 54, 176, 26, 203, 80, 205, 140, 182, 201, 209, 56, 199, 85, 126, 72 >>,
      << 226, 238, 177, 98, 32, 115, 141, 99, 144, 38, 228, 56, 221, 131, 158, 157,
         103, 174, 254, 98, 32, 210, 23, 201, 6, 72, 64, 35, 5, 237, 246, 136 >>,
      << 189, 233, 143, 96, 106, 122, 61, 122, 254, 121, 105, 155, 0, 98, 128, 176,
         174, 168, 78, 77, 72, 26, 84, 50, 216, 237, 201, 28, 37, 94, 230, 37 >>,
      << 147, 79, 233, 229, 248, 48, 234, 34, 5, 192, 177, 2, 209, 58, 247, 130,
         249, 208, 156, 96, 68, 167, 248, 169, 38, 21, 164, 182, 195, 224, 38, 183 >>,
      << 54, 224, 79, 61, 239, 58, 209, 94, 101, 48, 250, 227, 32, 125, 97, 59,
         30, 236, 183, 138, 161, 180, 219, 153, 45, 162, 24, 103, 56, 2, 195, 101 >>,
      << 229, 109, 77, 202, 169, 233, 244, 173, 149, 73, 53, 177, 107, 230, 29, 139,
         148, 140, 135, 199, 169, 57, 178, 0, 43, 164, 191, 84, 136, 150, 180, 48 >>,
      << 154, 47, 38, 196, 243, 39, 249, 58, 7, 171, 17, 195, 220, 64, 50, 182,
         206, 42, 22, 58, 239, 107, 51, 107, 219, 152, 12, 114, 143, 56, 215, 52 >>,
      << 130, 10, 124, 221, 70, 64, 175, 91, 100, 37, 6, 123, 63, 243, 223, 74,
         201, 162, 209, 80, 67, 189, 164, 244, 138, 85, 139, 76, 134, 149, 246, 207 >>,
      << 176, 107, 106, 250, 240, 145, 139, 13, 183, 253, 160, 117, 118, 149, 33, 220,
         226, 147, 164, 86, 252, 104, 42, 210, 222, 44, 173, 121, 9, 107, 193, 247 >>,
      << 193, 30, 255, 163, 127, 60, 64, 17, 74, 211, 72, 118, 43, 150, 235, 167,
         0, 84, 82, 242, 159, 214, 250, 84, 245, 219, 157, 62, 85, 198, 181, 86 >>,
      << 50, 202, 105, 172, 195, 230, 20, 49, 121, 150, 31, 146, 42, 231, 215, 71,
         233, 65, 114, 150, 138, 9, 29, 37, 134, 178, 156, 184, 175, 31, 155, 185 >>,
      << 178, 179, 81, 236, 151, 129, 72, 192, 206, 210, 228, 59, 53, 250, 22, 175,
         207, 175, 85, 47, 96, 135, 45, 90, 63, 37, 135, 166, 121, 115, 216, 76 >>,
      << 9, 195, 5, 243, 244, 26, 190, 173, 185, 233, 228, 238, 180, 146, 18, 68,
         239, 191, 191, 218, 219, 23, 32, 113, 179, 229, 132, 123, 90, 112, 235, 44 >>,
      << 175, 73, 109, 86, 28, 228, 140, 178, 216, 61, 150, 147, 194, 188, 100, 169,
         55, 54, 39, 60, 33, 104, 74, 10, 228, 207, 87, 13, 142, 172, 233, 228 >>,
      << 22, 227, 30, 184, 178, 58, 91, 189, 6, 30, 60, 44, 60, 216, 27, 16,
         48, 138, 129, 223, 148, 172, 155, 177, 68, 82, 63, 53, 208, 209, 177, 114 >>,
      << 244, 59, 25, 81, 17, 141, 37, 46, 9, 9, 146, 72, 240, 221, 123, 102,
         82, 163, 232, 230, 17, 74, 245, 73, 115, 181, 175, 211, 75, 190, 98, 144 >>,
      << 54, 155, 197, 135, 14, 197, 170, 224, 241, 232, 82, 132, 199, 31, 231, 202,
         211, 98, 218, 215, 83, 13, 26, 105, 139, 203, 142, 148, 3, 185, 20, 71 >>,
      << 235, 61, 73, 117, 255, 226, 147, 240, 119, 176, 199, 0, 0, 41, 239, 71,
         109, 231, 200, 88, 232, 90, 215, 125, 52, 80, 24, 89, 100, 134, 128, 207 >>,
      << 78, 13, 26, 11, 44, 35, 42, 33, 133, 10, 83, 64, 122, 83, 37, 23,
         59, 86, 148, 161, 158, 42, 63, 195, 165, 205, 148, 36, 186, 53, 106, 15 >>,
      << 15, 134, 175, 64, 211, 34, 5, 155, 74, 10, 147, 39, 165, 48, 68, 53,
         29, 0, 22, 16, 96, 57, 1, 97, 84, 140, 226, 64, 229, 251, 211, 95 >>,
      << 7, 226, 26, 200, 101, 157, 221, 209, 205, 67, 79, 111, 29, 60, 122, 42,
         171, 244, 93, 57, 200, 60, 29, 45, 196, 251, 154, 62, 132, 84, 104, 133 >>,
      << 124, 134, 246, 248, 204, 25, 162, 38, 84, 211, 81, 3, 94, 109, 53, 102,
         133, 236, 129, 228, 50, 44, 91, 170, 228, 136, 94, 134, 68, 228, 155, 111 >>,
      << 70, 180, 90, 33, 79, 199, 226, 20, 229, 82, 101, 112, 208, 108, 127, 135,
         135, 17, 176, 26, 218, 28, 37, 218, 209, 252, 159, 52, 13, 167, 109, 75 >>,
      << 114, 120, 121, 58, 47, 94, 24, 219, 53, 58, 59, 43, 121, 81, 164, 79,
         100, 43, 142, 112, 183, 72, 131, 142, 152, 3, 97, 12, 246, 190, 39, 146 >>,
      << 61, 246, 254, 66, 37, 233, 131, 140, 144, 105, 77, 66, 223, 200, 147, 170,
         16, 96, 53, 188, 246, 12, 197, 128, 214, 200, 25, 205, 50, 10, 149, 141 >>,
      << 96, 92, 76, 132, 93, 205, 1, 81, 119, 166, 227, 134, 116, 20, 232, 97,
         63, 125, 32, 233, 185, 115, 47, 106, 183, 221, 166, 85, 246, 164, 77, 50 >>,
      << 241, 97, 18, 6, 114, 39, 74, 144, 28, 140, 35, 253, 36, 42, 167, 182,
         206, 248, 162, 88, 143, 60, 48, 191, 158, 45, 2, 1, 177, 45, 205, 172 >>,
      << 198, 212, 88, 91, 184, 42, 203, 70, 68, 98, 192, 161, 199, 177, 53, 153,
         216, 239, 188, 243, 5, 208, 40, 218, 48, 112, 84, 156, 54, 204, 15, 23 >>,
      << 234, 24, 227, 66, 160, 202, 203, 4, 96, 168, 109, 40, 190, 36, 120, 56,
         38, 246, 133, 108, 153, 126, 77, 146, 22, 247, 52, 32, 171, 60, 163, 30 >>,
      << 249, 11, 60, 174, 115, 197, 63, 189, 119, 97, 166, 145, 23, 124, 11, 136,
         77, 41, 111, 39, 131, 91, 241, 118, 69, 217, 186, 107, 106, 15, 170, 127 >>,
      << 243, 171, 178, 124, 144, 115, 232, 79, 15, 26, 242, 199, 63, 134, 20, 79,
         124, 81, 158, 7, 157, 140, 62, 24, 185, 224, 128, 251, 9, 50, 199, 31 >>,
      << 116, 92, 241, 70, 212, 247, 234, 169, 144, 20, 84, 35, 76, 92, 148, 170,
         112, 114, 158, 80, 15, 13, 9, 242, 13, 193, 108, 28, 159, 141, 90, 92 >>,
      << 22, 225, 122, 80, 77, 163, 70, 144, 75, 253, 221, 250, 190, 104, 111, 62,
         98, 221, 100, 223, 51, 53, 40, 76, 3, 168, 247, 219, 41, 250, 34, 188 >>,
      << 176, 194, 34, 251, 170, 148, 52, 232, 96, 207, 107, 31, 118, 49, 183, 197,
         185, 196, 113, 55, 101, 2, 118, 160, 60, 115, 164, 8, 13, 88, 44, 182 >>,
      << 183, 115, 168, 217, 167, 205, 219, 133, 188, 241, 65, 11, 119, 58, 84, 21,
         203, 220, 145, 171, 139, 144, 69, 51, 103, 200, 165, 90, 207, 146, 103, 121 >>,
      << 167, 185, 242, 123, 76, 103, 75, 156, 255, 59, 45, 115, 167, 62, 135, 163,
         197, 84, 241, 152, 10, 105, 198, 118, 102, 9, 231, 78, 214, 5, 200, 162 >>,
      << 176, 34, 170, 136, 141, 168, 99, 5, 203, 243, 37, 232, 206, 156, 82, 143,
         56, 61, 177, 249, 46, 138, 210, 104, 226, 242, 127, 240, 91, 246, 6, 60 >>,
      << 81, 46, 227, 249, 143, 225, 171, 101, 243, 104, 175, 55, 225, 175, 191, 146,
         36, 217, 178, 250, 246, 28, 96, 186, 46, 208, 128, 179, 156, 38, 2, 29 >>,
      << 114, 223, 182, 149, 110, 31, 236, 196, 98, 184, 69, 198, 89, 234, 33, 119,
         156, 109, 197, 141, 176, 174, 37, 67, 128, 160, 143, 63, 175, 230, 183, 211 >>,
      << 177, 204, 170, 78, 44, 56, 191, 98, 209, 108, 244, 213, 64, 24, 14, 161,
         59, 66, 232, 176, 29, 159, 91, 138, 81, 200, 41, 117, 123, 128, 75, 68 >>,
      << 131, 202, 139, 48, 99, 22, 177, 65, 166, 20, 196, 175, 116, 200, 192, 22,
         41, 3, 226, 110, 99, 21, 32, 115, 200, 199, 63, 70, 177, 238, 0, 132 >>,
      << 228, 95, 123, 195, 30, 74, 110, 127, 117, 79, 71, 153, 2, 96, 162, 34,
         168, 42, 248, 249, 229, 175, 181, 250, 47, 82, 98, 19, 13, 247, 90, 137 >>,
      << 39, 203, 208, 3, 103, 67, 125, 178, 206, 77, 166, 84, 129, 55, 198, 243,
         211, 194, 86, 17, 26, 222, 231, 61, 144, 204, 45, 185, 49, 72, 242, 177 >>,
      << 232, 248, 106, 142, 239, 233, 219, 168, 170, 202, 36, 131, 147, 61, 36, 208,
         44, 207, 90, 119, 117, 154, 210, 137, 255, 96, 226, 173, 39, 215, 15, 40 >>,
      << 127, 84, 220, 20, 68, 153, 140, 104, 38, 11, 95, 52, 103, 73, 22, 103,
         232, 175, 32, 44, 178, 29, 171, 143, 25, 44, 159, 30, 203, 15, 184, 64 >>,
      << 25, 78, 218, 36, 227, 56, 229, 5, 35, 102, 50, 238, 134, 60, 222, 241,
         34, 126, 243, 60, 239, 162, 212, 146, 174, 233, 182, 91, 222, 115, 235, 215 >>,
      << 27, 100, 91, 57, 89, 165, 213, 94, 141, 148, 202, 66, 53, 241, 230, 110,
         60, 106, 93, 135, 79, 148, 130, 118, 118, 86, 74, 85, 158, 202, 207, 200 >>,
      << 140, 209, 16, 163, 176, 223, 46, 56, 85, 228, 167, 174, 177, 169, 137, 53,
         184, 38, 93, 88, 72, 34, 95, 125, 228, 22, 233, 7, 158, 0, 211, 37 >>,
      << 91, 199, 2, 180, 31, 221, 181, 217, 181, 166, 173, 244, 183, 64, 233, 204,
         207, 131, 143, 215, 115, 92, 158, 29, 96, 69, 110, 57, 142, 94, 9, 127 >>,
      << 53, 170, 237, 194, 36, 164, 103, 9, 206, 9, 164, 4, 137, 65, 101, 186,
         200, 219, 190, 219, 124, 71, 169, 201, 136, 239, 220, 176, 37, 71, 156, 168 >>,
      << 24, 95, 121, 195, 252, 140, 146, 142, 190, 218, 226, 236, 49, 24, 110, 231,
         236, 200, 208, 88, 198, 232, 17, 56, 14, 10, 133, 5, 185, 81, 160, 227 >>,
      << 43, 204, 29, 240, 226, 91, 64, 174, 54, 249, 120, 228, 72, 231, 139, 221,
         92, 111, 217, 109, 0, 4, 92, 117, 99, 53, 237, 252, 6, 61, 94, 205 >>,
      << 204, 108, 250, 118, 79, 189, 106, 162, 105, 12, 104, 191, 188, 196, 255, 173,
         231, 155, 20, 206, 153, 33, 63, 114, 3, 8, 13, 140, 41, 105, 210, 44 >>,
      << 232, 133, 21, 84, 180, 113, 141, 127, 146, 189, 121, 16, 46, 70, 70, 20,
         103, 51, 58, 71, 123, 60, 230, 189, 119, 219, 170, 80, 83, 97, 72, 240 >>,
      << 20, 135, 77, 114, 99, 93, 204, 203, 99, 10, 58, 110, 53, 98, 177, 73,
         144, 113, 165, 42, 94, 135, 215, 251, 13, 218, 213, 50, 83, 245, 61, 108 >>,
      << 81, 199, 70, 97, 165, 229, 73, 214, 107, 150, 226, 70, 7, 237, 74, 89,
         226, 111, 200, 170, 70, 40, 65, 115, 198, 50, 196, 122, 235, 233, 3, 196 >>,
      << 134, 55, 114, 214, 92, 90, 221, 202, 47, 7, 137, 103, 49, 250, 58, 146,
         193, 55, 251, 29, 147, 2, 253, 183, 197, 218, 245, 65, 137, 63, 14, 13 >>,
      << 69, 102, 37, 251, 238, 117, 149, 230, 214, 221, 249, 191, 117, 184, 85, 58,
         88, 72, 141, 81, 47, 94, 62, 23, 160, 230, 96, 158, 141, 134, 90, 220 >>,
      << 113, 161, 194, 220, 6, 149, 65, 44, 91, 132, 222, 58, 57, 159, 52, 174,
         160, 251, 254, 70, 22, 156, 13, 14, 81, 83, 142, 216, 8, 134, 136, 223 >>,
      << 134, 113, 25, 150, 156, 123, 238, 144, 181, 59, 231, 149, 30, 148, 129, 79,
         243, 7, 34, 58, 42, 139, 145, 151, 148, 164, 252, 17, 164, 180, 94, 9 >>,
      << 21, 40, 3, 218, 121, 6, 176, 31, 161, 166, 205, 234, 120, 15, 58, 115,
         35, 106, 48, 85, 17, 225, 46, 163, 66, 27, 125, 87, 178, 222, 174, 123 >>,
      << 198, 17, 52, 25, 73, 6, 214, 42, 2, 116, 86, 38, 25, 46, 81, 201,
         253, 198, 115, 90, 200, 39, 74, 38, 195, 237, 251, 210, 222, 18, 102, 221 >>,
      << 118, 104, 127, 6, 51, 118, 38, 12, 44, 198, 8, 162, 82, 211, 224, 241,
         11, 245, 183, 82, 107, 170, 149, 92, 241, 154, 213, 164, 72, 192, 245, 143 >>,
      << 239, 3, 38, 47, 248, 40, 229, 75, 172, 244, 252, 45, 103, 134, 138, 202,
         118, 129, 207, 146, 58, 133, 232, 182, 157, 183, 49, 209, 40, 40, 245, 183 >>,
      << 114, 111, 150, 201, 192, 164, 43, 209, 90, 112, 181, 28, 87, 123, 75, 165,
         129, 159, 199, 71, 21, 219, 4, 118, 16, 11, 21, 199, 30, 35, 10, 212 >>,
      << 243, 253, 24, 39, 128, 123, 122, 225, 250, 69, 36, 141, 5, 152, 66, 234,
         83, 14, 208, 27, 28, 198, 117, 67, 245, 8, 204, 241, 237, 213, 147, 161 >>,
      << 242, 4, 89, 228, 17, 254, 47, 232, 197, 217, 46, 60, 128, 2, 215, 241,
         32, 112, 98, 183, 242, 188, 214, 85, 109, 69, 12, 216, 94, 100, 69, 243 >>,
      << 166, 158, 196, 17, 228, 167, 51, 177, 57, 40, 2, 20, 37, 172, 10, 111,
         246, 169, 111, 160, 20, 160, 35, 152, 16, 211, 209, 187, 82, 104, 170, 210 >>,
      << 68, 73, 75, 35, 116, 222, 114, 37, 75, 59, 36, 134, 146, 254, 25, 188,
         214, 139, 12, 39, 65, 47, 18, 219, 106, 97, 187, 14, 149, 14, 163, 53 >>,
      << 67, 68, 247, 184, 141, 129, 244, 230, 10, 126, 230, 234, 172, 31, 163, 225,
         245, 244, 140, 1, 16, 117, 3, 139, 196, 23, 81, 226, 244, 147, 102, 146 >>,
      << 98, 9, 67, 153, 49, 132, 106, 20, 181, 244, 188, 150, 220, 229, 239, 114,
         48, 75, 85, 210, 13, 207, 209, 64, 27, 236, 127, 232, 107, 207, 118, 140 >>,
      << 102, 34, 245, 147, 133, 232, 189, 248, 246, 74, 17, 158, 68, 241, 98, 48,
         152, 117, 244, 12, 138, 78, 21, 228, 254, 152, 3, 123, 218, 83, 55, 98 >>,
      << 225, 199, 105, 76, 173, 17, 32, 208, 28, 133, 27, 211, 125, 8, 232, 33,
         119, 167, 111, 58, 245, 19, 244, 99, 148, 45, 172, 22, 219, 9, 247, 255 >>,
      << 96, 219, 239, 188, 120, 108, 233, 62, 235, 159, 84, 14, 151, 60, 233, 33,
         189, 64, 133, 178, 197, 235, 244, 137, 187, 163, 167, 11, 6, 154, 236, 175 >>,
      << 10, 253, 25, 167, 211, 0, 199, 18, 230, 11, 103, 252, 1, 96, 146, 40,
         150, 210, 10, 43, 82, 60, 8, 32, 105, 92, 238, 24, 56, 208, 196, 128 >>,
      << 39, 210, 43, 14, 185, 150, 150, 198, 224, 202, 21, 153, 83, 64, 247, 149,
         184, 101, 144, 147, 82, 88, 138, 222, 99, 65, 92, 185, 194, 112, 146, 107 >>,
      << 120, 51, 4, 245, 43, 81, 243, 194, 86, 53, 213, 39, 195, 1, 52, 96,
         164, 125, 200, 144, 111, 8, 156, 186, 227, 230, 62, 192, 255, 71, 36, 193 >>,
      << 202, 155, 163, 109, 116, 86, 233, 98, 157, 43, 245, 73, 65, 153, 115, 155,
         67, 232, 143, 17, 121, 106, 187, 75, 117, 239, 9, 185, 125, 42, 158, 222 >>,
      << 85, 32, 171, 104, 80, 116, 212, 192, 254, 49, 207, 80, 251, 197, 3, 75,
         140, 93, 205, 130, 68, 101, 10, 108, 94, 89, 180, 142, 228, 241, 8, 143 >>,
      << 215, 7, 213, 241, 40, 137, 194, 198, 134, 112, 231, 75, 78, 135, 153, 117,
         251, 73, 53, 145, 31, 111, 93, 250, 133, 102, 207, 72, 226, 169, 142, 241 >>,
      << 194, 19, 16, 17, 170, 124, 143, 226, 94, 12, 70, 211, 91, 143, 228, 77,
         244, 110, 157, 240, 211, 110, 198, 254, 195, 254, 24, 119, 169, 181, 216, 32 >>,
      << 179, 49, 90, 3, 224, 221, 123, 111, 5, 251, 217, 173, 92, 67, 55, 194,
         162, 201, 133, 18, 137, 96, 124, 68, 64, 167, 167, 177, 106, 39, 163, 202 >>,
      << 210, 236, 184, 92, 131, 145, 55, 107, 90, 62, 119, 79, 103, 237, 50, 12,
         233, 113, 17, 65, 222, 40, 51, 194, 130, 166, 248, 242, 169, 239, 55, 107 >>,
      << 253, 209, 22, 227, 39, 228, 125, 184, 187, 157, 247, 77, 67, 30, 158, 36,
         232, 136, 124, 1, 100, 163, 126, 82, 148, 11, 228, 92, 221, 126, 177, 229 >>,
      << 197, 35, 12, 249, 110, 13, 166, 79, 212, 172, 12, 230, 7, 179, 32, 184,
         148, 225, 160, 85, 199, 34, 253, 232, 45, 69, 79, 103, 76, 250, 219, 181 >>,
      << 110, 187, 206, 161, 19, 79, 203, 218, 18, 144, 9, 1, 38, 61, 15, 17,
         250, 149, 30, 35, 93, 141, 239, 125, 89, 171, 22, 174, 194, 228, 202, 31 >>,
      << 93, 32, 39, 150, 45, 177, 220, 225, 51, 22, 174, 148, 71, 107, 66, 111,
         4, 214, 112, 149, 241, 144, 79, 188, 151, 18, 36, 146, 206, 40, 0, 216 >>,
      << 239, 220, 30, 97, 102, 26, 225, 154, 16, 145, 52, 167, 104, 155, 208, 232,
         122, 14, 53, 230, 109, 32, 220, 210, 190, 87, 126, 93, 184, 33, 128, 154 >>,
      << 102, 19, 214, 107, 131, 68, 102, 90, 18, 204, 152, 59, 106, 26, 46, 57,
         250, 36, 175, 152, 162, 249, 244, 11, 47, 134, 209, 194, 82, 126, 49, 87 >>,
      << 159, 107, 219, 213, 179, 29, 224, 218, 22, 5, 208, 85, 202, 13, 25, 45,
         13, 162, 40, 186, 15, 227, 77, 129, 4, 106, 23, 128, 177, 141, 228, 216 >>,
      << 156, 125, 124, 173, 14, 111, 169, 90, 36, 76, 57, 255, 213, 218, 17, 36,
         90, 180, 254, 217, 25, 66, 4, 82, 228, 238, 52, 168, 145, 3, 152, 221 >>,
      << 221, 61, 112, 0, 142, 224, 207, 231, 234, 198, 22, 22, 35, 168, 167, 0,
         247, 199, 185, 220, 37, 230, 84, 34, 191, 199, 145, 33, 195, 65, 198, 105 >>,
      << 62, 250, 93, 209, 148, 76, 231, 31, 99, 18, 90, 98, 51, 192, 246, 183,
         66, 160, 67, 177, 85, 121, 135, 86, 164, 250, 205, 8, 115, 99, 79, 254 >>,
      << 201, 154, 4, 102, 1, 216, 254, 189, 238, 15, 187, 186, 4, 192, 136, 77,
         117, 51, 121, 55, 74, 107, 13, 16, 46, 50, 226, 183, 216, 92, 112, 100 >>,
      << 166, 248, 130, 34, 139, 229, 185, 47, 2, 15, 104, 119, 133, 37, 138, 64,
         116, 117, 67, 46, 246, 242, 202, 152, 64, 26, 50, 201, 14, 62, 150, 181 >>,
      << 127, 196, 114, 54, 186, 241, 198, 244, 37, 74, 97, 168, 107, 110, 24, 185,
         174, 207, 59, 95, 138, 121, 241, 0, 75, 169, 17, 187, 192, 250, 247, 29 >>,
      << 86, 119, 254, 193, 78, 209, 76, 137, 71, 89, 176, 248, 125, 78, 149, 125,
         19, 61, 239, 194, 228, 167, 96, 4, 133, 3, 61, 36, 0, 129, 66, 108 >>,
      << 53, 240, 212, 113, 18, 45, 22, 10, 153, 56, 46, 40, 117, 222, 161, 66,
         153, 97, 39, 152, 245, 81, 124, 233, 96, 122, 81, 153, 240, 102, 183, 35 >>,
      << 62, 90, 220, 157, 194, 64, 158, 160, 189, 182, 245, 0, 228, 65, 171, 173,
         49, 110, 96, 52, 12, 150, 117, 112, 206, 120, 200, 135, 76, 134, 99, 29 >>,
      << 10, 127, 86, 76, 196, 164, 144, 16, 161, 33, 109, 127, 12, 207, 12, 193,
         23, 236, 159, 33, 58, 42, 123, 231, 32, 86, 230, 57, 132, 108, 38, 47 >>,
      << 119, 91, 25, 82, 60, 116, 17, 60, 12, 88, 250, 219, 250, 178, 108, 91,
         15, 135, 45, 217, 148, 96, 206, 162, 177, 145, 126, 150, 193, 17, 6, 58 >>,
      << 157, 102, 16, 153, 128, 134, 118, 220, 182, 253, 78, 64, 133, 73, 27, 178,
         1, 136, 159, 240, 248, 75, 222, 136, 2, 85, 211, 128, 105, 221, 154, 150 >>,
      << 214, 8, 143, 29, 200, 254, 87, 109, 248, 220, 85, 147, 101, 227, 34, 161,
         169, 15, 0, 78, 211, 182, 170, 210, 241, 214, 223, 106, 91, 106, 148, 74 >>,
      << 236, 123, 65, 244, 20, 23, 50, 76, 248, 77, 112, 226, 229, 254, 38, 202,
         227, 192, 66, 221, 59, 140, 3, 63, 165, 166, 39, 224, 52, 138, 147, 182 >>,
      << 162, 121, 17, 224, 72, 41, 22, 146, 90, 109, 76, 24, 69, 19, 163, 4,
         71, 51, 86, 159, 115, 196, 110, 11, 2, 16, 13, 235, 148, 105, 207, 123 >>,
      << 249, 199, 105, 254, 128, 24, 245, 245, 191, 152, 239, 170, 69, 51, 27, 157,
         176, 30, 88, 164, 143, 198, 168, 174, 12, 237, 18, 97, 13, 47, 230, 92 >>,
      << 48, 195, 111, 113, 199, 2, 244, 165, 110, 208, 252, 93, 115, 229, 209, 176,
         146, 35, 42, 93, 93, 197, 243, 181, 102, 47, 0, 247, 122, 216, 189, 34 >>,
      << 109, 171, 247, 20, 227, 220, 164, 112, 163, 193, 232, 154, 237, 69, 135, 244,
         168, 71, 125, 179, 109, 86, 138, 236, 59, 63, 69, 129, 233, 3, 72, 165 >>,
      << 74, 124, 85, 174, 187, 199, 152, 101, 246, 251, 31, 14, 234, 227, 22, 102,
         102, 245, 131, 60, 245, 14, 53, 252, 108, 11, 52, 218, 62, 20, 3, 170 >>,
      << 222, 66, 136, 159, 130, 86, 64, 231, 234, 48, 85, 188, 184, 126, 3, 164,
         187, 116, 172, 223, 31, 170, 220, 33, 101, 223, 195, 153, 82, 158, 59, 200 >>,
      << 160, 140, 69, 122, 216, 238, 70, 198, 106, 58, 133, 253, 86, 56, 170, 141,
         46, 54, 104, 49, 116, 220, 253, 48, 152, 183, 16, 183, 213, 37, 23, 89 >>,
      << 104, 54, 153, 110, 134, 115, 100, 241, 222, 16, 61, 205, 225, 219, 178, 248,
         46, 228, 219, 179, 221, 139, 2, 142, 60, 43, 71, 71, 8, 146, 171, 97 >>,
      << 19, 166, 222, 171, 15, 138, 208, 232, 52, 33, 154, 31, 110, 36, 184, 247,
         163, 7, 69, 89, 89, 213, 69, 132, 63, 137, 127, 236, 134, 205, 29, 26 >>,
      << 235, 210, 108, 82, 79, 163, 240, 130, 59, 235, 177, 33, 166, 8, 38, 239,
         77, 240, 121, 80, 12, 112, 50, 10, 63, 127, 217, 124, 187, 141, 64, 69 >>,
      << 30, 147, 228, 165, 133, 10, 29, 125, 180, 188, 85, 85, 189, 115, 145, 25,
         38, 196, 37, 231, 186, 225, 154, 10, 25, 98, 243, 200, 49, 109, 151, 228 >>,
      << 50, 74, 22, 195, 68, 40, 126, 161, 206, 80, 188, 111, 241, 10, 195, 89,
         27, 255, 71, 212, 77, 98, 7, 84, 203, 28, 98, 28, 118, 197, 17, 55 >>,
      << 15, 141, 87, 128, 147, 180, 221, 78, 88, 124, 87, 113, 167, 45, 72, 200,
         137, 163, 54, 59, 182, 180, 183, 199, 102, 115, 125, 211, 236, 161, 240, 82 >>,
      << 107, 51, 122, 44, 8, 126, 94, 198, 14, 63, 81, 51, 237, 46, 81, 215,
         12, 178, 162, 0, 28, 39, 161, 146, 78, 160, 203, 14, 193, 90, 227, 91 >>,
      << 199, 245, 2, 60, 244, 216, 125, 113, 175, 48, 15, 185, 102, 230, 231, 248,
         117, 18, 43, 27, 207, 221, 122, 202, 113, 160, 44, 79, 12, 86, 180, 146 >>,
      << 161, 83, 224, 12, 212, 212, 223, 228, 65, 176, 5, 46, 43, 206, 20, 15,
         79, 192, 118, 175, 197, 4, 235, 187, 179, 91, 60, 111, 83, 153, 88, 233 >>,
      << 116, 22, 22, 28, 118, 122, 243, 84, 19, 44, 60, 204, 13, 203, 125, 97,
         147, 210, 146, 108, 120, 58, 16, 71, 19, 36, 237, 231, 33, 245, 158, 17 >>,
      << 15, 14, 116, 130, 16, 109, 39, 53, 168, 59, 204, 179, 34, 164, 130, 33,
         203, 87, 53, 242, 0, 12, 212, 226, 117, 42, 233, 160, 115, 163, 209, 210 >>,
      << 166, 47, 113, 234, 151, 102, 128, 11, 222, 205, 156, 149, 118, 209, 42, 122,
         55, 246, 46, 107, 196, 224, 51, 63, 204, 204, 240, 137, 158, 37, 238, 55 >>,
      << 157, 123, 118, 211, 171, 1, 240, 249, 147, 53, 211, 59, 22, 124, 19, 7,
         73, 52, 197, 140, 137, 61, 45, 95, 192, 179, 163, 164, 170, 144, 126, 39 >>,
      << 210, 10, 102, 87, 160, 114, 39, 245, 230, 231, 14, 146, 81, 41, 233, 70,
         145, 20, 173, 154, 43, 147, 23, 247, 94, 173, 42, 167, 132, 49, 21, 39 >>,
      << 91, 130, 88, 162, 162, 17, 252, 229, 175, 191, 244, 147, 128, 103, 150, 139,
         234, 20, 217, 212, 171, 217, 178, 44, 15, 32, 169, 224, 239, 171, 0, 29 >>,
      << 44, 121, 139, 244, 33, 249, 59, 116, 121, 164, 69, 97, 6, 108, 97, 220,
         60, 202, 111, 255, 222, 46, 219, 29, 122, 41, 44, 8, 142, 153, 246, 110 >>,
      << 192, 85, 200, 7, 197, 10, 43, 131, 251, 236, 98, 136, 117, 61, 60, 198,
         19, 106, 246, 85, 8, 21, 214, 197, 102, 130, 243, 94, 240, 8, 134, 162 >>,
      << 160, 210, 134, 31, 189, 179, 253, 211, 201, 254, 234, 163, 76, 116, 156, 242,
         142, 114, 83, 130, 153, 246, 129, 214, 195, 231, 176, 91, 52, 160, 38, 148 >>,
      << 24, 180, 124, 104, 62, 109, 126, 12, 70, 241, 197, 26, 194, 63, 15, 114,
         44, 69, 186, 193, 42, 97, 211, 103, 66, 98, 212, 112, 198, 139, 3, 130 >>,
      << 247, 97, 160, 248, 122, 196, 132, 233, 136, 246, 145, 130, 155, 79, 153, 179,
         86, 28, 147, 150, 92, 59, 201, 110, 142, 175, 246, 105, 35, 51, 17, 165 >>,
      << 209, 119, 150, 188, 46, 38, 119, 140, 137, 250, 161, 58, 76, 202, 191, 119,
         74, 248, 32, 225, 76, 107, 72, 225, 38, 214, 50, 139, 120, 181, 174, 49 >>,
      << 176, 90, 77, 227, 225, 140, 225, 136, 179, 133, 159, 223, 187, 219, 95, 74,
         80, 124, 147, 41, 49, 69, 161, 51, 209, 128, 232, 71, 35, 123, 125, 47 >>,
      << 31, 11, 13, 2, 121, 150, 229, 213, 246, 124, 203, 32, 199, 198, 27, 69,
         0, 14, 33, 202, 24, 224, 9, 168, 52, 238, 222, 242, 100, 161, 248, 222 >>,
      << 94, 51, 38, 131, 232, 224, 234, 154, 106, 246, 64, 25, 202, 7, 93, 28,
         36, 197, 145, 68, 80, 99, 219, 143, 95, 206, 214, 186, 178, 156, 113, 113 >>,
      << 138, 50, 239, 226, 116, 214, 209, 26, 126, 0, 230, 253, 161, 135, 55, 226,
         149, 136, 74, 14, 79, 190, 36, 135, 2, 88, 2, 13, 175, 214, 192, 15 >>,
      << 191, 14, 66, 200, 202, 144, 172, 180, 71, 222, 74, 96, 68, 225, 93, 216,
         255, 227, 193, 155, 71, 128, 199, 145, 79, 38, 59, 215, 161, 212, 85, 239 >>,
      << 93, 231, 75, 113, 140, 200, 73, 40, 47, 142, 93, 34, 83, 231, 194, 237,
         141, 220, 164, 18, 221, 21, 212, 118, 117, 52, 234, 33, 77, 237, 4, 40 >>,
      << 142, 54, 98, 219, 60, 24, 167, 15, 223, 157, 28, 247, 34, 138, 41, 116,
         77, 103, 52, 167, 72, 251, 246, 123, 38, 252, 230, 99, 200, 35, 24, 223 >>,
      << 42, 168, 183, 239, 213, 75, 206, 219, 133, 160, 10, 213, 26, 238, 191, 94,
         106, 92, 25, 232, 222, 126, 63, 38, 84, 218, 222, 183, 18, 130, 106, 38 >>,
      << 163, 32, 194, 102, 61, 198, 124, 80, 132, 172, 89, 186, 77, 50, 68, 225,
         37, 174, 250, 48, 244, 11, 215, 23, 146, 224, 122, 7, 226, 161, 241, 21 >>,
      << 68, 227, 91, 55, 210, 150, 3, 190, 173, 162, 50, 189, 192, 151, 17, 221,
         11, 67, 220, 218, 22, 32, 145, 207, 179, 68, 97, 239, 176, 177, 36, 214 >>,
      << 254, 226, 145, 207, 73, 224, 135, 164, 53, 71, 86, 80, 158, 243, 21, 15,
         32, 226, 170, 33, 64, 70, 128, 51, 104, 47, 85, 113, 223, 198, 102, 192 >>,
      << 196, 145, 97, 109, 140, 132, 161, 4, 0, 11, 251, 127, 21, 187, 24, 16,
         243, 138, 212, 254, 222, 253, 83, 155, 52, 72, 99, 185, 139, 236, 61, 249 >>,
      << 228, 37, 110, 3, 220, 58, 27, 187, 221, 166, 63, 204, 78, 133, 32, 207,
         25, 94, 67, 231, 80, 99, 175, 148, 34, 114, 105, 106, 7, 180, 187, 42 >>,
      << 148, 101, 4, 174, 190, 46, 183, 249, 227, 141, 101, 4, 221, 137, 159, 249,
         41, 168, 184, 26, 225, 44, 238, 76, 205, 54, 255, 175, 121, 112, 55, 167 >>,
      << 163, 207, 23, 73, 195, 88, 239, 220, 239, 33, 164, 113, 25, 220, 79, 55,
         153, 54, 124, 87, 176, 59, 210, 139, 247, 106, 32, 181, 70, 33, 15, 154 >>,
      << 243, 239, 21, 49, 171, 91, 69, 183, 119, 1, 165, 64, 174, 17, 32, 205,
         121, 236, 76, 3, 43, 123, 191, 51, 175, 183, 58, 117, 24, 213, 12, 65 >>,
      << 202, 111, 60, 214, 27, 38, 184, 64, 89, 242, 225, 126, 212, 217, 109, 214,
         206, 116, 46, 32, 80, 93, 75, 136, 122, 116, 111, 175, 219, 171, 183, 124 >>,
      << 10, 225, 218, 75, 18, 35, 38, 136, 34, 182, 143, 228, 139, 202, 12, 66,
         137, 88, 243, 248, 146, 251, 141, 39, 192, 255, 149, 97, 6, 97, 184, 54 >>,
      << 153, 106, 253, 160, 71, 238, 83, 216, 192, 252, 229, 200, 169, 238, 254, 221,
         148, 140, 212, 238, 8, 101, 192, 145, 25, 104, 40, 78, 164, 121, 140, 157 >>,
      << 23, 42, 180, 118, 20, 82, 239, 221, 145, 52, 243, 243, 89, 175, 141, 42,
         230, 10, 214, 143, 90, 158, 32, 54, 81, 201, 64, 130, 225, 92, 70, 229 >>,
      << 69, 59, 221, 215, 234, 136, 251, 25, 181, 56, 125, 247, 248, 40, 217, 195,
         121, 46, 170, 106, 74, 43, 237, 235, 38, 244, 126, 16, 206, 72, 37, 86 >>,
      << 93, 68, 59, 106, 171, 30, 9, 44, 23, 177, 23, 205, 31, 138, 60, 186,
         206, 63, 237, 225, 62, 130, 237, 118, 229, 50, 254, 71, 166, 129, 151, 93 >>,
      << 177, 65, 6, 192, 230, 183, 146, 96, 75, 230, 226, 148, 75, 6, 99, 126,
         51, 11, 133, 62, 183, 22, 57, 147, 182, 109, 228, 77, 190, 155, 97, 145 >>,
      << 203, 235, 26, 228, 93, 127, 157, 57, 138, 165, 101, 100, 13, 27, 232, 165,
         206, 13, 192, 119, 129, 61, 20, 191, 36, 250, 246, 233, 80, 246, 59, 51 >>,
      << 208, 92, 31, 174, 103, 116, 137, 131, 4, 74, 163, 130, 94, 98, 85, 210,
         121, 126, 85, 254, 159, 90, 150, 188, 247, 118, 146, 208, 221, 210, 35, 109 >>,
      << 107, 108, 235, 197, 114, 30, 244, 12, 139, 238, 237, 168, 228, 114, 77, 204,
         61, 227, 33, 200, 64, 10, 76, 145, 136, 231, 190, 200, 53, 58, 35, 8 >>,
      << 23, 142, 242, 58, 53, 132, 223, 21, 48, 1, 80, 51, 96, 82, 150, 145,
         39, 86, 159, 110, 42, 95, 89, 86, 37, 224, 154, 120, 185, 135, 154, 124 >>,
      << 227, 71, 99, 119, 165, 101, 218, 42, 253, 186, 49, 228, 191, 246, 150, 1,
         7, 170, 234, 48, 75, 127, 168, 233, 154, 249, 113, 118, 174, 137, 219, 177 >>,
      << 22, 31, 35, 156, 228, 172, 23, 125, 123, 50, 239, 25, 8, 110, 176, 56,
         137, 215, 204, 226, 214, 144, 184, 80, 118, 162, 15, 13, 238, 184, 127, 97 >>,
      << 143, 179, 6, 217, 83, 79, 68, 29, 64, 186, 247, 31, 154, 94, 20, 229,
         130, 163, 200, 41, 231, 71, 53, 17, 133, 216, 40, 57, 246, 216, 10, 22 >>,
      << 92, 200, 69, 2, 6, 26, 63, 51, 47, 132, 207, 181, 250, 238, 1, 12,
         242, 13, 233, 139, 18, 146, 18, 74, 54, 223, 143, 106, 241, 147, 68, 2 >>,
      << 197, 252, 107, 176, 188, 10, 70, 179, 79, 205, 63, 89, 103, 27, 129, 68,
         130, 193, 37, 203, 92, 19, 136, 253, 165, 134, 142, 68, 195, 98, 93, 239 >>,
      << 95, 55, 97, 217, 244, 175, 155, 100, 231, 28, 233, 152, 194, 187, 224, 63,
         165, 244, 46, 70, 86, 180, 177, 182, 222, 141, 121, 211, 123, 99, 112, 126 >>,
      << 106, 244, 233, 202, 171, 232, 148, 155, 248, 196, 243, 77, 217, 208, 84, 246,
         140, 224, 105, 236, 62, 20, 92, 83, 69, 223, 249, 42, 129, 141, 184, 204 >>,
      << 198, 128, 149, 125, 122, 241, 93, 160, 43, 5, 250, 14, 26, 13, 1, 149,
         220, 178, 185, 200, 40, 13, 245, 164, 79, 170, 149, 24, 28, 196, 120, 163 >>,
      << 22, 136, 56, 110, 13, 114, 158, 168, 43, 80, 126, 43, 92, 210, 5, 195,
         235, 200, 63, 186, 67, 48, 91, 45, 211, 2, 191, 11, 91, 191, 182, 33 >>,
      << 21, 164, 38, 202, 187, 26, 35, 123, 49, 223, 129, 61, 136, 198, 17, 19,
         154, 210, 205, 53, 8, 113, 169, 238, 64, 120, 153, 24, 127, 250, 24, 91 >>,
      << 231, 171, 222, 31, 39, 172, 119, 214, 59, 30, 107, 245, 231, 10, 116, 231,
         65, 212, 100, 3, 218, 243, 89, 161, 239, 139, 237, 73, 125, 19, 109, 247 >>,
      << 230, 85, 37, 64, 96, 116, 26, 151, 159, 140, 170, 65, 14, 228, 152, 238,
         171, 149, 65, 122, 248, 62, 85, 22, 20, 157, 12, 117, 154, 232, 197, 165 >>,
      << 6, 159, 196, 159, 197, 253, 252, 41, 227, 108, 128, 161, 92, 87, 227, 140,
         119, 195, 182, 129, 58, 141, 7, 253, 216, 33, 1, 89, 144, 16, 206, 9 >>,
      << 149, 4, 197, 34, 252, 189, 249, 232, 245, 240, 70, 136, 55, 89, 216, 235,
         187, 203, 18, 241, 209, 204, 214, 177, 175, 112, 177, 168, 1, 202, 71, 84 >>,
      << 228, 127, 216, 82, 99, 144, 66, 125, 233, 8, 8, 107, 95, 152, 38, 163,
         150, 236, 45, 203, 168, 252, 201, 200, 146, 49, 119, 7, 33, 211, 119, 171 >>,
      << 6, 199, 249, 57, 23, 230, 26, 72, 67, 86, 178, 69, 54, 248, 133, 50,
         130, 242, 106, 77, 208, 37, 6, 182, 43, 219, 153, 24, 109, 161, 101, 224 >>,
      << 139, 160, 12, 200, 210, 106, 103, 211, 101, 77, 185, 104, 59, 205, 10, 226,
         239, 179, 3, 0, 217, 53, 133, 167, 9, 187, 191, 173, 123, 160, 111, 17 >>,
      << 120, 184, 31, 231, 162, 165, 11, 202, 141, 29, 213, 120, 15, 17, 93, 84,
         9, 118, 152, 45, 25, 16, 57, 179, 25, 72, 188, 109, 199, 152, 59, 47 >>,
      << 212, 82, 230, 18, 203, 211, 106, 74, 88, 17, 123, 49, 61, 135, 199, 107,
         71, 211, 45, 35, 98, 13, 169, 23, 132, 3, 37, 195, 83, 44, 113, 144 >>,
      << 165, 171, 156, 122, 41, 210, 34, 158, 217, 193, 99, 12, 162, 43, 213, 229,
         185, 20, 67, 251, 121, 133, 182, 5, 8, 252, 115, 100, 64, 166, 158, 83 >>,
      << 188, 123, 21, 72, 149, 178, 206, 216, 215, 218, 42, 175, 120, 34, 92, 215,
         102, 165, 111, 112, 242, 161, 5, 46, 73, 87, 167, 16, 142, 36, 112, 60 >>,
      << 86, 213, 80, 29, 117, 165, 232, 228, 180, 22, 239, 194, 206, 220, 86, 216,
         129, 186, 86, 22, 19, 82, 119, 117, 61, 174, 134, 203, 13, 47, 120, 6 >>,
      << 147, 103, 165, 118, 90, 199, 5, 176, 89, 124, 21, 23, 238, 148, 78, 7,
         191, 96, 106, 4, 139, 183, 8, 162, 180, 148, 214, 199, 141, 211, 41, 116 >>,
      << 55, 171, 74, 81, 231, 36, 185, 154, 206, 231, 130, 125, 191, 78, 71, 57,
         133, 125, 183, 178, 25, 233, 100, 204, 55, 215, 245, 89, 54, 2, 144, 212 >>,
      << 255, 93, 53, 191, 216, 181, 116, 163, 176, 237, 175, 145, 115, 41, 166, 116,
         80, 194, 114, 109, 80, 29, 138, 178, 247, 51, 163, 28, 130, 110, 106, 225 >>,
      << 27, 68, 205, 233, 158, 138, 132, 196, 235, 179, 109, 47, 104, 2, 86, 117,
         88, 29, 6, 81, 217, 231, 135, 127, 104, 161, 71, 178, 55, 206, 154, 65 >>,
      << 156, 168, 241, 184, 22, 68, 82, 221, 206, 181, 108, 207, 67, 236, 136, 58,
         65, 25, 134, 214, 209, 237, 86, 154, 22, 3, 49, 175, 13, 128, 63, 58 >>,
      << 161, 117, 127, 203, 103, 42, 1, 107, 225, 26, 232, 59, 244, 3, 91, 176,
         148, 166, 186, 177, 43, 122, 227, 9, 114, 136, 247, 82, 83, 222, 235, 65 >>,
      << 132, 92, 235, 202, 237, 221, 188, 51, 251, 209, 107, 176, 128, 154, 182, 250,
         144, 113, 26, 107, 28, 150, 238, 86, 211, 24, 246, 100, 57, 39, 75, 180 >>,
      << 176, 211, 100, 84, 163, 214, 244, 17, 168, 16, 76, 173, 150, 239, 11, 110,
         118, 86, 78, 124, 117, 204, 155, 78, 33, 162, 217, 121, 175, 145, 22, 246 >>,
      << 140, 252, 243, 125, 23, 171, 42, 65, 199, 217, 229, 213, 50, 156, 178, 7,
         61, 89, 98, 119, 254, 127, 199, 31, 95, 198, 138, 43, 2, 55, 252, 22 >>,
      << 67, 194, 147, 25, 68, 40, 123, 105, 90, 149, 64, 144, 182, 171, 79, 180,
         249, 213, 147, 61, 39, 158, 244, 212, 74, 119, 97, 52, 189, 14, 37, 187 >>,
      << 226, 139, 36, 193, 13, 250, 136, 213, 72, 134, 156, 96, 70, 57, 187, 139,
         103, 105, 39, 198, 154, 170, 39, 71, 185, 244, 167, 114, 34, 17, 145, 111 >>,
      << 28, 159, 120, 150, 139, 90, 245, 23, 141, 223, 186, 225, 203, 103, 8, 168,
         92, 135, 163, 184, 100, 110, 244, 135, 221, 116, 173, 89, 159, 112, 3, 28 >>,
      << 165, 190, 43, 77, 23, 167, 152, 142, 170, 223, 235, 83, 27, 141, 15, 250,
         42, 175, 36, 73, 130, 42, 216, 89, 71, 76, 100, 170, 34, 47, 39, 214 >>,
      << 117, 113, 181, 59, 102, 37, 222, 240, 221, 194, 241, 113, 221, 19, 20, 198,
         147, 158, 66, 107, 35, 3, 193, 42, 9, 63, 170, 229, 189, 72, 97, 206 >>,
      << 32, 238, 222, 98, 210, 65, 211, 108, 180, 208, 185, 71, 62, 70, 181, 98,
         174, 134, 27, 104, 182, 178, 102, 155, 94, 173, 64, 249, 45, 174, 78, 20 >>,
      << 88, 189, 23, 254, 172, 104, 163, 219, 138, 207, 61, 91, 154, 126, 236, 194,
         142, 12, 183, 74, 165, 117, 253, 72, 50, 81, 2, 206, 74, 72, 207, 184 >>,
      << 118, 119, 172, 200, 111, 54, 54, 23, 24, 50, 50, 224, 175, 78, 98, 136,
         202, 125, 145, 113, 202, 63, 27, 153, 14, 17, 235, 50, 185, 69, 175, 69 >>,
      << 145, 197, 88, 67, 7, 204, 96, 107, 83, 228, 132, 201, 186, 73, 201, 251,
         103, 101, 56, 229, 158, 43, 175, 88, 98, 30, 228, 93, 23, 91, 212, 137 >>,
      << 11, 247, 33, 140, 30, 115, 140, 25, 127, 79, 236, 195, 29, 243, 72, 128,
         97, 61, 215, 137, 253, 165, 169, 57, 65, 165, 69, 109, 146, 228, 140, 61 >> >> )
  @@
  (   << 58, 68, 61, 131, 129, 166, 121, 138, 112, 198, 255, 147, 4, 189, 200, 203,
         1, 99, 194, 50, 17, 209, 22, 40, 250, 229, 46, 249, 224, 220, 161, 26,
         0, 28, 240, 102, 213, 106, 129, 86, 252, 32, 28, 213, 223, 138, 54, 239,
         105, 78, 236, 210, 88, 144, 63, 202, 112, 134, 193, 250, 231, 68, 30 >>
   :> <<
      << 183, 135, 203, 91, 133, 25, 195, 147, 154, 141, 141, 79, 182, 134, 43, 93,
         63, 15, 181, 153, 180, 172, 201, 151, 238, 253, 75, 194, 208, 117, 232, 161 >>,
      << 74, 248, 165, 96, 144, 138, 172, 249, 50, 166, 169, 63, 178, 220, 5, 107,
         189, 6, 138, 158, 110, 0, 244, 249, 180, 59, 135, 23, 28, 195, 122, 182 >>,
      << 14, 196, 255, 130, 29, 191, 18, 60, 229, 182, 142, 120, 145, 211, 108, 168,
         96, 97, 176, 94, 237, 183, 69, 104, 50, 156, 76, 21, 235, 219, 85, 15 >>,
      << 26, 33, 20, 93, 235, 110, 11, 43, 42, 66, 210, 23, 108, 165, 175, 72,
         120, 137, 150, 10, 88, 201, 233, 189, 216, 229, 26, 28, 34, 67, 222, 39 >>,
      << 134, 29, 200, 12, 181, 147, 162, 141, 22, 12, 205, 143, 55, 230, 46, 129,
         177, 255, 164, 204, 170, 73, 23, 178, 105, 193, 129, 85, 3, 172, 172, 221 >>,
      << 72, 14, 245, 52, 214, 120, 64, 118, 101, 90, 23, 219, 129, 77, 153, 164,
         247, 214, 162, 131, 167, 106, 239, 210, 68, 113, 16, 65, 39, 139, 211, 66 >>,
      << 35, 145, 155, 88, 112, 99, 185, 252, 100, 251, 145, 47, 68, 109, 180, 250,
         54, 43, 162, 119, 201, 231, 161, 80, 195, 184, 252, 223, 129, 43, 182, 194 >>,
      << 239, 255, 1, 56, 228, 178, 23, 199, 6, 79, 19, 253, 81, 103, 109, 28,
         16, 231, 141, 212, 69, 169, 107, 50, 251, 226, 184, 119, 181, 235, 122, 94 >>,
      << 249, 158, 106, 142, 81, 124, 235, 136, 21, 35, 135, 181, 81, 29, 133, 75,
         104, 79, 56, 216, 70, 166, 89, 143, 44, 92, 189, 100, 138, 38, 144, 16 >>,
      << 41, 217, 168, 151, 200, 1, 193, 250, 34, 107, 193, 185, 79, 187, 33, 111,
         157, 197, 173, 3, 213, 179, 46, 227, 125, 104, 157, 173, 182, 234, 122, 85 >>,
      << 120, 186, 173, 33, 87, 163, 211, 87, 34, 209, 19, 160, 158, 90, 102, 128,
         163, 150, 7, 46, 176, 234, 62, 252, 142, 118, 138, 97, 102, 44, 141, 113 >>,
      << 241, 210, 79, 86, 233, 64, 26, 111, 138, 232, 153, 98, 45, 171, 62, 112,
         155, 164, 62, 159, 6, 96, 164, 94, 235, 210, 112, 242, 235, 26, 250, 7 >>,
      << 64, 45, 47, 85, 27, 211, 217, 226, 195, 14, 36, 19, 71, 250, 175, 76,
         252, 77, 101, 81, 240, 154, 97, 68, 79, 255, 70, 176, 24, 239, 185, 143 >>,
      << 153, 237, 19, 220, 96, 159, 71, 71, 126, 159, 119, 82, 140, 172, 106, 19,
         181, 191, 170, 200, 151, 178, 127, 155, 56, 179, 55, 162, 234, 190, 216, 250 >>,
      << 59, 204, 163, 207, 183, 171, 175, 59, 64, 4, 116, 126, 99, 145, 29, 173,
         55, 234, 200, 101, 221, 217, 201, 225, 191, 142, 102, 39, 151, 119, 186, 61 >>,
      << 91, 102, 193, 8, 190, 213, 49, 34, 4, 140, 104, 150, 233, 141, 173, 29,
         121, 10, 214, 59, 110, 99, 0, 74, 255, 80, 247, 188, 246, 194, 70, 111 >>,
      << 133, 6, 60, 130, 143, 90, 27, 186, 10, 235, 253, 17, 243, 197, 248, 61,
         53, 100, 216, 214, 150, 32, 102, 175, 2, 20, 234, 196, 120, 147, 95, 230 >>,
      << 17, 12, 166, 186, 144, 247, 234, 76, 104, 184, 53, 210, 34, 125, 66, 133,
         190, 123, 36, 181, 96, 250, 0, 254, 101, 206, 206, 79, 5, 29, 173, 159 >>,
      << 179, 31, 160, 228, 221, 188, 98, 60, 52, 209, 106, 194, 177, 183, 12, 205,
         35, 229, 25, 130, 116, 250, 245, 66, 184, 217, 83, 246, 171, 150, 170, 140 >>,
      << 107, 156, 159, 229, 223, 104, 191, 45, 78, 137, 156, 205, 184, 119, 166, 107,
         248, 156, 159, 103, 225, 143, 249, 13, 229, 156, 46, 107, 21, 193, 75, 217 >>,
      << 163, 45, 242, 57, 228, 164, 87, 175, 147, 112, 220, 84, 220, 247, 229, 65,
         111, 4, 236, 165, 71, 250, 251, 95, 54, 112, 204, 240, 222, 231, 64, 171 >>,
      << 22, 86, 186, 154, 15, 237, 238, 6, 134, 171, 230, 21, 230, 186, 249, 175,
         38, 86, 97, 216, 141, 137, 10, 78, 172, 158, 53, 1, 70, 69, 1, 93 >>,
      << 113, 137, 126, 23, 80, 165, 156, 97, 180, 1, 20, 118, 207, 158, 145, 131,
         143, 137, 86, 51, 189, 10, 57, 145, 23, 20, 143, 124, 129, 206, 217, 200 >>,
      << 107, 50, 224, 151, 156, 79, 97, 172, 121, 33, 244, 193, 231, 183, 175, 163,
         142, 152, 88, 10, 131, 110, 181, 236, 10, 99, 72, 240, 72, 19, 166, 20 >>,
      << 75, 6, 91, 131, 18, 103, 107, 162, 200, 176, 207, 245, 192, 133, 179, 99,
         59, 234, 112, 106, 193, 24, 178, 46, 118, 185, 236, 96, 153, 170, 108, 37 >>,
      << 191, 35, 216, 232, 159, 140, 108, 184, 217, 26, 201, 124, 51, 51, 72, 182,
         9, 135, 242, 188, 37, 136, 229, 29, 7, 8, 188, 157, 208, 33, 180, 242 >>,
      << 222, 9, 36, 88, 160, 9, 177, 235, 140, 34, 231, 202, 131, 140, 48, 42,
         254, 138, 128, 226, 51, 6, 64, 140, 61, 170, 114, 55, 41, 84, 148, 34 >>,
      << 172, 197, 225, 90, 82, 157, 117, 114, 154, 124, 22, 9, 229, 113, 254, 138,
         52, 45, 26, 235, 72, 59, 250, 14, 20, 191, 28, 57, 13, 92, 136, 56 >>,
      << 200, 233, 143, 252, 198, 132, 66, 236, 215, 214, 249, 105, 228, 66, 76, 200,
         31, 229, 225, 183, 159, 105, 252, 30, 252, 155, 242, 236, 181, 74, 250, 23 >>,
      << 194, 175, 94, 216, 152, 158, 10, 222, 61, 199, 49, 191, 47, 1, 92, 96,
         224, 190, 17, 107, 31, 12, 213, 52, 112, 77, 185, 201, 33, 24, 251, 106 >>,
      << 160, 177, 54, 207, 224, 95, 130, 138, 216, 199, 121, 81, 106, 132, 161, 123,
         188, 201, 238, 6, 143, 48, 145, 172, 242, 234, 49, 191, 62, 130, 241, 91 >>,
      << 54, 91, 39, 114, 215, 153, 216, 74, 240, 165, 193, 103, 98, 101, 176, 254,
         69, 193, 125, 148, 24, 128, 101, 173, 53, 243, 36, 247, 67, 173, 226, 99 >>,
      << 137, 196, 174, 82, 55, 244, 75, 156, 141, 179, 60, 174, 221, 161, 169, 43,
         101, 228, 95, 85, 254, 139, 121, 133, 36, 183, 0, 61, 75, 11, 42, 94 >>,
      << 154, 114, 160, 12, 237, 156, 206, 248, 64, 90, 43, 23, 15, 226, 147, 250,
         56, 195, 1, 167, 128, 74, 35, 199, 74, 243, 163, 95, 232, 37, 79, 92 >>,
      << 141, 54, 112, 234, 148, 150, 126, 189, 246, 160, 50, 60, 137, 71, 117, 71,
         121, 246, 109, 255, 197, 246, 114, 239, 34, 59, 75, 233, 59, 142, 3, 64 >>,
      << 53, 13, 132, 168, 79, 1, 41, 119, 55, 114, 161, 221, 86, 241, 52, 233,
         55, 58, 180, 199, 203, 24, 235, 130, 189, 107, 186, 190, 58, 70, 250, 23 >>,
      << 96, 10, 184, 31, 243, 68, 176, 79, 180, 38, 183, 36, 190, 163, 242, 130,
         216, 62, 115, 71, 206, 212, 112, 76, 55, 245, 213, 119, 235, 244, 29, 117 >>,
      << 169, 3, 16, 106, 106, 51, 201, 126, 9, 191, 149, 150, 150, 237, 6, 142,
         220, 4, 165, 118, 246, 63, 195, 147, 65, 253, 104, 197, 26, 80, 233, 66 >>,
      << 151, 210, 3, 74, 239, 10, 88, 193, 26, 100, 204, 132, 255, 236, 235, 151,
         19, 75, 201, 131, 17, 108, 63, 8, 9, 9, 82, 46, 12, 233, 193, 66 >>,
      << 40, 75, 150, 234, 23, 195, 114, 137, 92, 130, 59, 71, 146, 166, 216, 11,
         117, 186, 161, 12, 54, 177, 133, 197, 7, 132, 6, 86, 232, 236, 107, 76 >>,
      << 16, 58, 64, 255, 20, 135, 113, 12, 91, 76, 0, 187, 200, 197, 200, 222,
         194, 57, 111, 163, 89, 221, 209, 97, 92, 242, 238, 176, 156, 37, 26, 102 >>,
      << 195, 73, 98, 183, 83, 152, 120, 118, 71, 71, 54, 101, 252, 211, 177, 248,
         126, 89, 93, 171, 96, 39, 172, 40, 196, 84, 249, 153, 113, 19, 58, 188 >>,
      << 88, 254, 202, 234, 119, 228, 66, 57, 64, 26, 43, 32, 245, 232, 175, 218,
         141, 224, 38, 254, 194, 135, 248, 79, 218, 181, 230, 159, 58, 109, 74, 171 >>,
      << 194, 22, 221, 127, 60, 10, 109, 108, 206, 142, 82, 235, 92, 139, 131, 102,
         110, 9, 145, 158, 184, 173, 30, 86, 182, 186, 104, 126, 157, 13, 224, 35 >>,
      << 21, 118, 253, 178, 185, 233, 50, 60, 119, 173, 177, 201, 208, 125, 181, 216,
         79, 161, 145, 50, 94, 161, 50, 142, 143, 53, 245, 104, 87, 183, 225, 99 >>,
      << 207, 186, 241, 134, 90, 249, 45, 10, 219, 255, 177, 18, 114, 9, 88, 97,
         80, 176, 92, 132, 225, 224, 186, 225, 196, 220, 166, 29, 100, 119, 148, 15 >>,
      << 177, 41, 246, 110, 255, 123, 223, 12, 79, 192, 38, 190, 94, 46, 89, 53,
         61, 9, 152, 244, 135, 85, 149, 254, 114, 230, 174, 144, 234, 122, 188, 69 >>,
      << 119, 242, 43, 224, 38, 105, 171, 111, 60, 237, 102, 252, 199, 246, 123, 114,
         14, 9, 63, 164, 178, 170, 222, 80, 18, 153, 194, 53, 102, 86, 99, 154 >>,
      << 108, 4, 82, 177, 78, 142, 150, 8, 26, 85, 189, 66, 216, 82, 198, 64,
         6, 87, 39, 201, 204, 114, 237, 197, 78, 189, 65, 222, 122, 37, 3, 160 >>,
      << 238, 28, 21, 97, 151, 10, 7, 160, 142, 123, 166, 62, 195, 210, 27, 217,
         165, 169, 6, 125, 235, 111, 20, 19, 233, 216, 99, 63, 157, 162, 155, 67 >>,
      << 187, 89, 113, 63, 166, 159, 164, 213, 101, 44, 1, 87, 45, 147, 33, 121,
         24, 170, 188, 80, 142, 146, 46, 46, 163, 65, 234, 198, 14, 234, 205, 185 >>,
      << 106, 255, 107, 153, 104, 202, 82, 157, 87, 92, 13, 33, 211, 88, 208, 185,
         56, 125, 83, 53, 114, 39, 202, 226, 91, 202, 167, 144, 178, 245, 126, 229 >>,
      << 136, 32, 102, 64, 124, 139, 82, 239, 102, 5, 160, 17, 163, 10, 85, 252,
         11, 170, 183, 172, 68, 154, 210, 9, 79, 48, 152, 80, 214, 228, 206, 135 >>,
      << 127, 14, 177, 182, 122, 153, 102, 12, 135, 78, 108, 251, 135, 92, 15, 128,
         47, 195, 13, 113, 149, 223, 130, 127, 88, 62, 96, 52, 163, 133, 150, 19 >>,
      << 0, 223, 84, 21, 81, 31, 196, 166, 29, 179, 128, 189, 124, 213, 41, 80,
         12, 233, 52, 12, 190, 246, 90, 219, 110, 31, 183, 74, 201, 157, 89, 117 >>,
      << 197, 49, 206, 130, 187, 87, 76, 113, 241, 104, 229, 112, 255, 8, 138, 128,
         197, 222, 68, 205, 217, 185, 31, 120, 252, 40, 117, 24, 26, 206, 188, 162 >>,
      << 70, 215, 255, 113, 191, 148, 16, 126, 133, 43, 214, 189, 165, 155, 209, 242,
         178, 252, 65, 125, 139, 18, 65, 94, 42, 237, 35, 79, 27, 16, 37, 139 >>,
      << 248, 220, 121, 192, 51, 23, 196, 210, 45, 233, 124, 101, 235, 123, 158, 151,
         71, 210, 81, 39, 130, 214, 130, 9, 75, 201, 62, 130, 34, 172, 30, 241 >>,
      << 246, 23, 245, 201, 93, 36, 24, 82, 138, 118, 134, 143, 142, 194, 197, 58,
         112, 53, 209, 230, 118, 225, 19, 162, 154, 95, 34, 88, 121, 58, 43, 58 >>,
      << 14, 210, 208, 17, 150, 63, 222, 9, 189, 105, 197, 86, 81, 35, 93, 212,
         52, 246, 246, 108, 190, 168, 189, 74, 23, 45, 64, 120, 112, 70, 87, 166 >>,
      << 223, 210, 101, 70, 20, 116, 150, 105, 88, 69, 200, 109, 252, 72, 67, 163,
         232, 197, 212, 212, 5, 232, 3, 168, 59, 113, 202, 2, 209, 40, 44, 37 >>,
      << 188, 206, 75, 32, 21, 230, 146, 67, 30, 205, 35, 193, 60, 138, 84, 79,
         248, 236, 138, 112, 237, 124, 153, 163, 111, 254, 190, 239, 237, 116, 15, 23 >>,
      << 29, 81, 183, 138, 209, 221, 189, 122, 139, 23, 4, 40, 162, 8, 248, 151,
         128, 247, 150, 75, 119, 103, 106, 245, 216, 238, 208, 60, 163, 25, 228, 41 >>,
      << 89, 118, 247, 93, 231, 59, 242, 155, 250, 77, 122, 199, 82, 215, 99, 64,
         156, 60, 58, 149, 129, 2, 52, 214, 25, 157, 71, 21, 168, 165, 158, 182 >>,
      << 158, 13, 39, 72, 211, 176, 40, 70, 106, 152, 141, 222, 244, 124, 125, 162,
         202, 180, 141, 47, 177, 169, 227, 255, 170, 70, 57, 101, 27, 43, 191, 163 >>,
      << 69, 236, 111, 38, 219, 2, 112, 195, 217, 27, 138, 209, 87, 92, 245, 109,
         223, 11, 35, 11, 38, 250, 91, 88, 38, 130, 208, 39, 173, 185, 197, 11 >>,
      << 62, 12, 36, 151, 14, 233, 0, 221, 31, 151, 24, 163, 47, 188, 199, 165,
         172, 107, 202, 209, 45, 229, 101, 95, 237, 10, 190, 187, 70, 11, 48, 36 >>,
      << 115, 193, 246, 16, 24, 230, 69, 23, 202, 89, 40, 204, 159, 129, 142, 147,
         93, 127, 212, 90, 181, 90, 150, 119, 220, 63, 144, 75, 147, 50, 1, 214 >>,
      << 58, 250, 0, 102, 147, 96, 178, 227, 0, 197, 102, 179, 249, 15, 92, 193,
         62, 28, 231, 251, 241, 30, 78, 168, 38, 103, 123, 171, 188, 182, 139, 105 >>,
      << 67, 200, 240, 98, 6, 110, 153, 115, 220, 174, 16, 118, 169, 214, 171, 62,
         176, 200, 171, 37, 10, 132, 158, 216, 150, 100, 45, 166, 107, 67, 110, 177 >>,
      << 245, 243, 100, 3, 24, 108, 201, 71, 31, 250, 42, 228, 250, 108, 141, 236,
         61, 215, 255, 8, 4, 80, 131, 216, 241, 184, 202, 238, 132, 118, 61, 24 >>,
      << 159, 92, 55, 36, 219, 243, 193, 187, 237, 177, 153, 221, 72, 169, 60, 241,
         3, 31, 190, 105, 221, 133, 244, 54, 38, 225, 169, 252, 147, 164, 228, 207 >>,
      << 144, 188, 141, 45, 132, 85, 35, 59, 58, 54, 38, 212, 157, 93, 232, 23,
         159, 146, 74, 63, 247, 100, 97, 123, 242, 110, 44, 165, 176, 197, 84, 214 >>,
      << 31, 232, 89, 211, 97, 46, 121, 126, 190, 144, 158, 86, 175, 85, 18, 248,
         177, 0, 247, 60, 101, 49, 112, 151, 200, 228, 39, 214, 216, 2, 135, 95 >>,
      << 26, 231, 217, 177, 20, 49, 251, 128, 182, 251, 23, 13, 249, 216, 33, 82,
         77, 121, 42, 71, 181, 246, 169, 158, 195, 138, 80, 22, 204, 243, 188, 43 >>,
      << 87, 57, 67, 222, 248, 108, 179, 23, 75, 237, 52, 89, 134, 7, 212, 188,
         45, 204, 221, 98, 171, 155, 44, 46, 211, 22, 28, 3, 138, 145, 14, 81 >>,
      << 96, 86, 75, 78, 195, 108, 198, 125, 230, 119, 228, 134, 237, 250, 76, 49,
         84, 235, 228, 30, 223, 219, 235, 192, 218, 26, 92, 49, 66, 90, 0, 8 >>,
      << 150, 84, 110, 127, 64, 16, 114, 198, 78, 246, 85, 101, 185, 37, 188, 16,
         43, 187, 142, 219, 237, 98, 219, 129, 133, 242, 40, 246, 205, 58, 158, 230 >>,
      << 155, 164, 111, 95, 228, 38, 22, 209, 74, 109, 252, 39, 165, 177, 76, 95,
         201, 206, 240, 21, 74, 170, 13, 209, 149, 55, 109, 79, 233, 103, 53, 106 >>,
      << 30, 8, 83, 85, 127, 149, 214, 66, 103, 15, 137, 18, 230, 244, 199, 177,
         172, 27, 145, 27, 241, 191, 54, 157, 128, 93, 221, 150, 131, 18, 53, 25 >>,
      << 242, 127, 5, 227, 166, 91, 244, 141, 75, 216, 253, 61, 159, 250, 247, 167,
         185, 95, 42, 223, 133, 150, 70, 201, 43, 8, 63, 18, 227, 212, 153, 183 >>,
      << 221, 10, 179, 36, 166, 158, 148, 5, 45, 35, 116, 166, 40, 211, 195, 45,
         245, 54, 222, 116, 5, 49, 156, 15, 119, 249, 51, 223, 3, 112, 250, 101 >>,
      << 32, 235, 35, 4, 222, 102, 224, 85, 148, 220, 168, 48, 57, 128, 189, 134,
         110, 68, 208, 94, 60, 176, 245, 101, 129, 196, 95, 224, 208, 48, 98, 71 >>,
      << 31, 207, 247, 191, 248, 38, 191, 254, 129, 203, 225, 122, 107, 79, 188, 38,
         196, 214, 233, 232, 94, 144, 133, 179, 67, 210, 93, 185, 61, 38, 80, 116 >>,
      << 77, 255, 196, 119, 224, 13, 110, 43, 40, 83, 142, 114, 141, 136, 147, 81,
         188, 86, 94, 82, 235, 81, 182, 245, 39, 139, 67, 164, 199, 139, 211, 165 >>,
      << 180, 68, 239, 68, 208, 126, 107, 115, 29, 164, 45, 98, 52, 146, 3, 145,
         111, 114, 154, 130, 28, 89, 120, 34, 114, 255, 108, 228, 33, 70, 43, 8 >>,
      << 5, 140, 228, 248, 3, 198, 113, 226, 153, 228, 69, 197, 112, 232, 83, 171,
         85, 1, 107, 10, 126, 144, 93, 108, 18, 15, 115, 53, 3, 89, 88, 91 >>,
      << 34, 224, 72, 60, 37, 101, 229, 24, 161, 111, 50, 64, 228, 5, 183, 116,
         251, 90, 9, 75, 44, 97, 214, 90, 166, 42, 223, 12, 87, 64, 68, 223 >>,
      << 138, 158, 8, 247, 236, 17, 183, 246, 95, 116, 212, 51, 165, 188, 185, 154,
         168, 114, 11, 161, 125, 186, 197, 137, 224, 190, 39, 218, 46, 53, 185, 226 >>,
      << 11, 196, 236, 95, 155, 211, 243, 206, 110, 110, 249, 122, 20, 160, 109, 43,
         201, 145, 96, 180, 115, 45, 20, 89, 208, 144, 61, 242, 145, 57, 255, 75 >>,
      << 53, 166, 147, 77, 174, 246, 49, 147, 194, 221, 178, 142, 98, 40, 113, 14,
         216, 15, 95, 120, 48, 60, 191, 85, 130, 233, 130, 174, 235, 45, 105, 127 >>,
      << 70, 120, 200, 235, 101, 41, 241, 33, 235, 112, 89, 122, 159, 157, 232, 60,
         126, 103, 199, 148, 13, 69, 137, 4, 210, 67, 163, 153, 85, 28, 110, 207 >>,
      << 40, 118, 49, 50, 180, 247, 244, 193, 0, 162, 48, 254, 102, 131, 237, 98,
         194, 224, 71, 148, 20, 229, 86, 62, 44, 235, 41, 6, 141, 255, 144, 10 >>,
      << 200, 144, 28, 113, 197, 101, 109, 65, 131, 83, 255, 134, 107, 65, 41, 143,
         188, 131, 32, 95, 106, 128, 31, 11, 4, 30, 104, 108, 223, 0, 23, 223 >>,
      << 112, 30, 128, 104, 210, 76, 167, 253, 189, 20, 158, 81, 175, 74, 251, 247,
         120, 48, 174, 153, 54, 136, 179, 45, 83, 215, 231, 235, 142, 193, 204, 123 >>,
      << 164, 254, 175, 30, 101, 89, 223, 133, 141, 103, 29, 68, 87, 232, 55, 98,
         35, 249, 104, 244, 176, 235, 40, 179, 91, 28, 211, 3, 44, 212, 5, 64 >>,
      << 193, 191, 51, 37, 219, 1, 249, 85, 61, 28, 228, 108, 125, 240, 219, 164,
         27, 164, 93, 150, 225, 120, 84, 52, 70, 244, 197, 96, 107, 238, 27, 92 >>,
      << 12, 221, 137, 18, 15, 242, 188, 27, 93, 51, 35, 78, 3, 5, 205, 69,
         40, 212, 235, 61, 148, 115, 154, 242, 237, 247, 184, 212, 140, 227, 12, 68 >>,
      << 233, 106, 143, 41, 240, 212, 23, 83, 103, 228, 15, 38, 43, 122, 219, 179,
         80, 143, 75, 116, 63, 32, 89, 252, 45, 205, 114, 152, 139, 212, 240, 236 >>,
      << 183, 117, 125, 58, 247, 78, 21, 48, 120, 159, 119, 118, 134, 54, 80, 31,
         249, 148, 42, 116, 72, 59, 89, 165, 149, 247, 62, 193, 26, 44, 85, 173 >>,
      << 250, 88, 248, 139, 183, 55, 193, 88, 64, 159, 148, 109, 192, 105, 207, 110,
         61, 69, 183, 198, 234, 90, 206, 77, 57, 69, 127, 155, 160, 98, 196, 29 >>,
      << 251, 132, 254, 92, 169, 45, 85, 152, 225, 101, 207, 95, 74, 168, 108, 85,
         191, 168, 38, 21, 220, 241, 183, 208, 57, 193, 212, 35, 59, 103, 155, 253 >>,
      << 62, 231, 186, 67, 227, 140, 112, 17, 241, 234, 86, 96, 153, 155, 114, 135,
         119, 28, 222, 221, 71, 104, 254, 195, 123, 205, 54, 170, 93, 160, 23, 215 >>,
      << 235, 180, 43, 200, 55, 117, 88, 9, 55, 206, 53, 26, 241, 93, 109, 50,
         14, 127, 5, 94, 65, 55, 61, 170, 39, 19, 77, 20, 98, 136, 96, 189 >>,
      << 227, 37, 189, 203, 63, 166, 23, 83, 3, 114, 115, 129, 13, 129, 241, 185,
         176, 123, 86, 18, 179, 213, 41, 249, 123, 11, 205, 152, 104, 104, 177, 178 >>,
      << 4, 209, 189, 83, 22, 65, 29, 168, 44, 5, 10, 37, 150, 7, 201, 129,
         56, 63, 28, 44, 233, 98, 123, 75, 173, 175, 201, 59, 214, 120, 135, 62 >>,
      << 73, 184, 144, 62, 42, 254, 73, 243, 81, 221, 237, 148, 254, 205, 94, 241,
         239, 139, 245, 225, 200, 61, 26, 19, 6, 219, 40, 195, 20, 176, 14, 133 >>,
      << 20, 128, 176, 8, 11, 197, 101, 101, 53, 240, 107, 222, 122, 147, 26, 110,
         125, 168, 210, 232, 101, 118, 236, 190, 223, 137, 59, 114, 124, 117, 131, 174 >>,
      << 135, 55, 73, 244, 34, 158, 109, 133, 137, 95, 243, 244, 133, 234, 42, 69,
         45, 111, 33, 112, 131, 153, 239, 216, 249, 205, 252, 163, 76, 135, 208, 55 >>,
      << 54, 141, 186, 61, 14, 20, 241, 232, 220, 6, 155, 241, 157, 113, 254, 58,
         45, 106, 155, 63, 165, 15, 87, 14, 117, 144, 97, 90, 33, 57, 127, 232 >>,
      << 236, 161, 127, 91, 24, 103, 224, 174, 84, 98, 185, 0, 43, 130, 43, 36,
         159, 243, 103, 39, 24, 79, 146, 198, 45, 68, 73, 207, 212, 234, 75, 62 >>,
      << 173, 45, 73, 7, 157, 110, 250, 32, 234, 131, 41, 73, 52, 229, 208, 138,
         14, 46, 29, 146, 136, 150, 48, 223, 207, 119, 179, 162, 82, 241, 186, 164 >>,
      << 150, 235, 33, 139, 134, 7, 104, 229, 112, 181, 66, 70, 131, 206, 128, 87,
         79, 12, 49, 94, 80, 237, 24, 25, 158, 237, 56, 90, 185, 210, 55, 246 >>,
      << 213, 21, 186, 142, 61, 113, 176, 154, 16, 156, 12, 227, 161, 40, 249, 30,
         25, 211, 225, 89, 166, 46, 153, 16, 190, 138, 103, 100, 204, 199, 8, 63 >>,
      << 217, 96, 177, 58, 114, 111, 123, 241, 85, 1, 172, 127, 143, 180, 229, 237,
         249, 19, 171, 130, 159, 230, 216, 229, 154, 252, 18, 14, 214, 103, 231, 24 >>,
      << 140, 138, 205, 88, 37, 116, 255, 85, 140, 60, 107, 7, 241, 250, 27, 220,
         128, 117, 93, 172, 178, 68, 224, 22, 51, 31, 7, 149, 0, 201, 121, 206 >>,
      << 66, 211, 239, 200, 216, 86, 99, 108, 162, 185, 173, 23, 21, 166, 216, 239,
         198, 92, 126, 255, 194, 79, 101, 99, 209, 135, 97, 224, 12, 154, 235, 191 >>,
      << 132, 174, 221, 54, 115, 36, 126, 204, 65, 7, 81, 208, 232, 228, 98, 223,
         226, 202, 156, 74, 30, 179, 174, 5, 55, 48, 102, 118, 187, 207, 168, 229 >>,
      << 55, 228, 124, 42, 127, 146, 132, 30, 165, 46, 31, 171, 108, 192, 67, 247,
         153, 16, 87, 153, 117, 174, 237, 147, 218, 105, 7, 225, 145, 155, 175, 13 >>,
      << 236, 81, 36, 39, 45, 54, 206, 125, 147, 162, 122, 205, 36, 37, 205, 88,
         250, 13, 125, 22, 105, 116, 135, 71, 229, 227, 109, 220, 130, 117, 12, 217 >>,
      << 220, 176, 121, 231, 219, 94, 130, 220, 163, 27, 115, 168, 118, 110, 159, 13,
         166, 210, 30, 205, 255, 62, 224, 136, 55, 240, 250, 89, 26, 190, 112, 225 >>,
      << 187, 234, 183, 220, 225, 193, 162, 152, 81, 145, 16, 66, 72, 136, 116, 71,
         241, 127, 50, 127, 177, 190, 14, 29, 91, 208, 80, 131, 208, 38, 70, 82 >>,
      << 144, 158, 4, 114, 207, 77, 2, 157, 228, 36, 214, 96, 195, 103, 112, 99,
         6, 249, 151, 160, 252, 62, 124, 76, 128, 55, 170, 47, 179, 104, 170, 254 >>,
      << 252, 159, 51, 187, 31, 3, 236, 63, 200, 175, 65, 227, 26, 24, 201, 52,
         130, 247, 151, 227, 96, 132, 122, 146, 58, 0, 81, 78, 60, 192, 248, 103 >>,
      << 84, 10, 210, 57, 187, 172, 101, 89, 116, 122, 241, 160, 152, 181, 71, 93,
         225, 234, 54, 144, 239, 58, 69, 217, 23, 227, 229, 103, 124, 41, 136, 43 >>,
      << 60, 54, 97, 7, 212, 134, 193, 121, 175, 236, 205, 114, 102, 165, 214, 91,
         221, 186, 99, 130, 35, 225, 0, 165, 46, 17, 25, 4, 172, 220, 250, 83 >>,
      << 87, 72, 245, 164, 231, 82, 68, 150, 1, 155, 46, 39, 145, 150, 220, 47,
         238, 12, 214, 25, 99, 93, 59, 106, 237, 211, 200, 144, 36, 60, 75, 229 >>,
      << 234, 33, 170, 253, 22, 159, 195, 145, 70, 232, 144, 2, 30, 252, 65, 242,
         123, 99, 236, 25, 145, 185, 208, 167, 66, 34, 97, 118, 61, 205, 81, 206 >>,
      << 79, 214, 27, 111, 12, 191, 231, 104, 71, 40, 182, 221, 197, 130, 115, 174,
         180, 228, 175, 110, 215, 142, 222, 34, 47, 195, 106, 135, 104, 165, 149, 210 >>,
      << 55, 71, 74, 69, 112, 206, 208, 228, 175, 87, 80, 43, 70, 36, 59, 24,
         208, 246, 38, 145, 212, 203, 77, 45, 57, 179, 158, 196, 30, 89, 208, 209 >>,
      << 239, 204, 86, 125, 115, 243, 110, 150, 29, 240, 5, 110, 155, 94, 192, 54,
         226, 48, 34, 177, 139, 228, 184, 20, 179, 196, 173, 91, 212, 237, 77, 38 >>,
      << 84, 119, 90, 149, 80, 71, 69, 199, 110, 246, 253, 102, 239, 242, 130, 246,
         129, 163, 51, 80, 157, 77, 181, 79, 61, 66, 204, 117, 35, 2, 47, 129 >>,
      << 217, 112, 142, 109, 252, 44, 252, 175, 79, 156, 73, 121, 206, 7, 88, 129,
         209, 99, 80, 23, 185, 68, 9, 209, 173, 48, 222, 248, 48, 205, 80, 187 >>,
      << 36, 81, 222, 174, 27, 15, 93, 227, 197, 197, 234, 183, 134, 148, 21, 210,
         59, 50, 206, 230, 26, 19, 235, 129, 29, 19, 162, 112, 252, 203, 202, 204 >>,
      << 101, 58, 35, 103, 239, 157, 81, 91, 13, 171, 229, 250, 33, 137, 233, 79,
         163, 58, 67, 238, 36, 180, 193, 87, 182, 201, 149, 151, 228, 154, 79, 227 >>,
      << 230, 77, 113, 128, 19, 238, 140, 73, 138, 224, 175, 175, 94, 95, 60, 122,
         157, 97, 236, 17, 126, 68, 136, 234, 221, 52, 188, 158, 53, 254, 11, 21 >>,
      << 184, 158, 81, 102, 163, 150, 23, 63, 164, 83, 57, 244, 2, 31, 179, 163,
         189, 73, 72, 112, 22, 222, 80, 248, 197, 192, 73, 145, 35, 230, 211, 194 >>,
      << 124, 41, 252, 14, 0, 6, 171, 238, 161, 40, 8, 237, 208, 204, 252, 165,
         210, 31, 108, 13, 178, 29, 138, 11, 37, 242, 157, 124, 110, 207, 29, 77 >>,
      << 117, 212, 81, 90, 37, 113, 132, 203, 190, 175, 197, 21, 251, 211, 6, 87,
         209, 226, 32, 128, 200, 179, 92, 207, 229, 207, 163, 191, 209, 221, 181, 176 >>,
      << 8, 93, 41, 89, 249, 30, 106, 78, 213, 174, 99, 192, 70, 223, 68, 201,
         222, 94, 5, 208, 166, 143, 26, 75, 49, 31, 161, 14, 118, 59, 189, 236 >>,
      << 46, 190, 245, 49, 176, 246, 132, 209, 100, 175, 224, 125, 125, 18, 117, 242,
         7, 68, 94, 252, 178, 148, 26, 127, 72, 21, 188, 154, 178, 29, 63, 151 >>,
      << 190, 16, 41, 88, 3, 32, 244, 231, 134, 86, 1, 238, 174, 61, 127, 37,
         70, 208, 179, 248, 118, 88, 89, 57, 229, 221, 142, 12, 192, 131, 112, 246 >>,
      << 138, 12, 173, 104, 5, 249, 129, 141, 174, 149, 117, 235, 66, 33, 215, 255,
         138, 209, 165, 150, 81, 83, 72, 38, 83, 56, 196, 160, 229, 14, 183, 2 >>,
      << 76, 193, 123, 113, 66, 104, 153, 251, 51, 252, 81, 161, 6, 62, 251, 182,
         27, 249, 197, 242, 142, 225, 239, 215, 150, 142, 31, 172, 30, 97, 120, 15 >>,
      << 152, 28, 79, 111, 21, 23, 56, 255, 142, 199, 33, 232, 231, 184, 130, 78,
         36, 4, 235, 237, 248, 228, 99, 24, 153, 7, 52, 133, 241, 39, 88, 251 >>,
      << 74, 37, 44, 120, 36, 58, 88, 212, 42, 140, 84, 104, 157, 255, 99, 123,
         32, 44, 21, 110, 47, 76, 134, 102, 110, 169, 193, 120, 241, 169, 203, 2 >>,
      << 40, 175, 228, 180, 31, 28, 167, 222, 150, 53, 84, 162, 231, 158, 147, 161,
         221, 56, 154, 219, 0, 251, 84, 237, 204, 174, 217, 217, 116, 40, 73, 124 >>,
      << 153, 151, 55, 52, 27, 235, 116, 30, 5, 132, 82, 174, 106, 7, 209, 123,
         18, 247, 77, 135, 75, 60, 42, 164, 110, 164, 218, 38, 10, 10, 46, 18 >>,
      << 96, 134, 8, 71, 17, 107, 19, 141, 233, 103, 73, 58, 248, 117, 124, 186,
         128, 241, 229, 85, 106, 1, 188, 46, 175, 153, 236, 201, 207, 170, 109, 105 >>,
      << 8, 25, 156, 53, 121, 230, 66, 37, 175, 113, 81, 101, 3, 216, 103, 73,
         108, 83, 185, 11, 15, 85, 16, 35, 78, 176, 241, 90, 49, 30, 36, 130 >>,
      << 164, 251, 142, 217, 100, 25, 233, 211, 239, 223, 99, 149, 16, 172, 69, 152,
         241, 169, 234, 62, 31, 85, 96, 125, 57, 45, 187, 237, 191, 2, 38, 97 >>,
      << 192, 181, 5, 137, 251, 169, 120, 75, 243, 27, 186, 131, 137, 120, 126, 139,
         96, 7, 237, 20, 64, 159, 237, 81, 162, 116, 73, 224, 249, 37, 249, 9 >>,
      << 205, 51, 162, 157, 66, 237, 219, 18, 11, 59, 130, 163, 122, 206, 195, 162,
         135, 0, 229, 56, 92, 72, 65, 217, 112, 3, 205, 124, 182, 66, 223, 60 >>,
      << 111, 79, 180, 119, 62, 179, 102, 30, 20, 57, 43, 88, 39, 202, 64, 82,
         63, 182, 190, 138, 154, 14, 157, 36, 145, 135, 149, 89, 227, 212, 230, 50 >>,
      << 207, 85, 1, 64, 212, 18, 1, 29, 225, 77, 52, 204, 34, 212, 106, 129,
         247, 103, 229, 81, 89, 77, 45, 176, 162, 80, 19, 219, 16, 75, 150, 171 >>,
      << 200, 71, 127, 122, 79, 255, 54, 162, 105, 74, 198, 139, 48, 2, 23, 141,
         57, 67, 164, 212, 116, 189, 61, 157, 128, 51, 112, 164, 14, 225, 217, 163 >>,
      << 189, 243, 42, 220, 145, 159, 201, 152, 209, 18, 247, 228, 21, 196, 230, 186,
         87, 78, 173, 124, 255, 109, 63, 248, 223, 65, 38, 240, 74, 153, 56, 203 >>,
      << 186, 239, 51, 81, 66, 187, 184, 159, 63, 222, 179, 27, 161, 50, 70, 181,
         68, 81, 66, 52, 157, 70, 141, 248, 192, 21, 94, 154, 63, 90, 47, 189 >>,
      << 229, 177, 36, 234, 127, 196, 12, 71, 89, 152, 205, 249, 30, 205, 221, 99,
         243, 201, 105, 231, 186, 127, 179, 190, 128, 17, 223, 32, 78, 208, 156, 178 >>,
      << 133, 88, 55, 244, 37, 68, 5, 189, 145, 214, 227, 126, 220, 196, 85, 16,
         171, 198, 120, 165, 150, 181, 252, 157, 242, 55, 166, 35, 177, 43, 140, 115 >>,
      << 3, 117, 180, 99, 251, 19, 247, 21, 244, 60, 178, 150, 14, 4, 229, 11,
         31, 182, 183, 103, 207, 79, 234, 179, 196, 210, 84, 147, 157, 240, 192, 150 >>,
      << 21, 4, 254, 221, 166, 21, 98, 65, 3, 119, 76, 165, 136, 108, 217, 244,
         19, 206, 61, 249, 243, 47, 5, 149, 197, 255, 167, 203, 216, 167, 196, 104 >>,
      << 211, 95, 9, 188, 197, 40, 195, 55, 182, 13, 206, 136, 103, 102, 147, 88,
         139, 72, 156, 182, 233, 78, 183, 218, 163, 163, 5, 52, 184, 216, 216, 77 >>,
      << 221, 96, 229, 51, 42, 43, 220, 73, 141, 247, 61, 83, 195, 91, 189, 60,
         151, 140, 106, 99, 108, 162, 47, 152, 127, 193, 217, 133, 211, 2, 139, 43 >>,
      << 16, 20, 232, 18, 120, 146, 179, 177, 178, 29, 71, 74, 89, 2, 20, 216,
         170, 68, 87, 174, 247, 180, 62, 12, 28, 253, 164, 53, 207, 34, 147, 80 >>,
      << 57, 80, 115, 35, 75, 44, 233, 169, 56, 109, 107, 191, 51, 36, 180, 192,
         190, 190, 142, 68, 74, 140, 27, 25, 151, 89, 124, 201, 94, 108, 96, 171 >>,
      << 94, 145, 42, 141, 116, 215, 92, 160, 166, 92, 213, 144, 49, 165, 168, 214,
         16, 199, 210, 139, 124, 245, 0, 44, 210, 154, 77, 235, 212, 57, 254, 222 >>,
      << 35, 171, 59, 130, 5, 111, 220, 45, 60, 107, 59, 108, 249, 127, 64, 25,
         82, 70, 182, 219, 206, 164, 110, 171, 182, 197, 225, 9, 118, 213, 186, 239 >>,
      << 19, 205, 106, 8, 70, 231, 97, 58, 191, 67, 82, 10, 170, 61, 155, 119,
         163, 194, 96, 50, 245, 224, 222, 11, 95, 142, 56, 23, 122, 203, 15, 243 >>,
      << 198, 51, 150, 85, 191, 203, 58, 16, 120, 240, 93, 122, 106, 241, 26, 6,
         172, 188, 176, 19, 135, 243, 227, 254, 20, 22, 231, 76, 4, 254, 2, 92 >>,
      << 9, 133, 222, 176, 212, 91, 168, 185, 132, 182, 197, 34, 82, 7, 14, 184,
         235, 73, 164, 190, 233, 148, 209, 245, 48, 61, 120, 243, 77, 220, 44, 61 >>,
      << 179, 186, 246, 55, 192, 182, 22, 206, 50, 199, 43, 81, 31, 177, 188, 111,
         97, 224, 0, 102, 88, 153, 216, 85, 22, 99, 255, 13, 222, 132, 84, 26 >>,
      << 173, 82, 187, 218, 121, 164, 118, 49, 172, 77, 84, 191, 40, 93, 145, 36,
         107, 238, 185, 105, 4, 112, 48, 15, 17, 166, 185, 124, 10, 239, 83, 140 >>,
      << 214, 10, 242, 148, 247, 14, 42, 32, 72, 227, 198, 121, 147, 183, 135, 64,
         82, 248, 130, 57, 156, 44, 34, 152, 97, 164, 237, 90, 158, 228, 113, 144 >>,
      << 55, 87, 0, 235, 198, 190, 21, 77, 238, 77, 191, 246, 10, 58, 191, 237,
         88, 6, 63, 113, 75, 44, 220, 40, 143, 244, 100, 99, 59, 83, 34, 188 >>,
      << 94, 134, 47, 92, 175, 58, 136, 250, 104, 202, 147, 82, 17, 170, 28, 75,
         102, 35, 149, 22, 17, 244, 66, 50, 213, 193, 133, 189, 178, 29, 80, 243 >>,
      << 234, 31, 204, 98, 80, 209, 4, 160, 144, 106, 137, 178, 38, 93, 114, 189,
         64, 219, 147, 149, 60, 73, 32, 76, 158, 30, 38, 140, 190, 166, 234, 68 >>,
      << 45, 7, 180, 154, 119, 25, 156, 213, 119, 228, 63, 206, 140, 96, 201, 152,
         165, 127, 243, 200, 232, 235, 62, 32, 53, 180, 198, 146, 209, 130, 53, 109 >>,
      << 77, 181, 147, 99, 197, 29, 163, 0, 1, 239, 195, 65, 104, 89, 212, 26,
         109, 16, 37, 71, 221, 108, 49, 150, 121, 93, 211, 98, 180, 105, 231, 20 >>,
      << 124, 183, 132, 130, 44, 147, 156, 20, 50, 204, 70, 149, 177, 42, 31, 235,
         220, 156, 4, 242, 97, 219, 187, 165, 77, 105, 110, 164, 103, 157, 5, 10 >>,
      << 130, 79, 99, 35, 3, 48, 140, 57, 222, 72, 15, 73, 197, 76, 210, 169,
         94, 155, 190, 255, 27, 201, 124, 250, 191, 254, 122, 103, 9, 171, 72, 59 >>,
      << 11, 80, 174, 238, 8, 110, 31, 107, 11, 63, 161, 7, 67, 169, 85, 253,
         144, 110, 241, 149, 54, 54, 166, 37, 49, 91, 237, 28, 12, 86, 127, 136 >>,
      << 218, 43, 113, 154, 99, 55, 198, 62, 165, 131, 100, 59, 255, 69, 173, 64,
         79, 216, 134, 145, 62, 95, 143, 197, 107, 190, 147, 221, 171, 33, 177, 204 >>,
      << 73, 224, 111, 154, 88, 233, 246, 30, 229, 233, 121, 62, 6, 13, 38, 232,
         116, 45, 77, 169, 74, 245, 136, 145, 45, 13, 106, 70, 117, 141, 141, 49 >>,
      << 236, 61, 61, 79, 170, 139, 66, 13, 231, 6, 7, 44, 29, 124, 27, 250,
         213, 112, 210, 132, 129, 169, 78, 19, 51, 247, 42, 30, 179, 47, 161, 240 >>,
      << 15, 248, 82, 231, 25, 250, 49, 218, 230, 138, 223, 196, 115, 149, 77, 151,
         0, 104, 169, 16, 123, 216, 202, 101, 136, 249, 193, 105, 33, 201, 37, 101 >>,
      << 151, 232, 35, 7, 122, 52, 218, 107, 159, 27, 146, 67, 5, 251, 2, 189,
         40, 227, 178, 67, 213, 141, 9, 44, 172, 177, 203, 200, 249, 199, 117, 114 >>,
      << 208, 228, 132, 107, 63, 183, 179, 4, 209, 155, 133, 175, 21, 194, 251, 49,
         158, 88, 63, 38, 186, 171, 19, 229, 161, 65, 241, 53, 59, 178, 85, 116 >>,
      << 158, 154, 30, 60, 100, 16, 214, 203, 37, 134, 171, 86, 171, 9, 217, 227,
         66, 169, 0, 177, 135, 19, 117, 1, 91, 254, 203, 154, 65, 131, 67, 159 >>,
      << 168, 211, 46, 73, 254, 174, 94, 36, 159, 32, 83, 61, 62, 192, 10, 225,
         107, 29, 14, 26, 216, 31, 145, 251, 174, 222, 215, 207, 38, 37, 219, 98 >>,
      << 66, 70, 146, 156, 215, 149, 159, 116, 68, 86, 228, 200, 61, 8, 51, 4,
         224, 146, 193, 44, 98, 225, 62, 200, 191, 9, 17, 7, 139, 172, 25, 187 >>,
      << 240, 29, 248, 151, 208, 211, 70, 219, 182, 78, 213, 201, 74, 171, 74, 40,
         168, 182, 210, 127, 137, 52, 212, 42, 9, 43, 149, 194, 119, 145, 229, 148 >>,
      << 218, 103, 77, 118, 88, 49, 112, 102, 114, 250, 107, 27, 54, 37, 51, 127,
         102, 123, 54, 89, 67, 148, 105, 19, 176, 87, 76, 86, 142, 227, 118, 117 >>,
      << 123, 239, 120, 252, 30, 18, 2, 187, 78, 247, 84, 14, 60, 16, 160, 64,
         249, 75, 219, 36, 214, 20, 32, 177, 18, 78, 180, 162, 150, 103, 26, 5 >>,
      << 234, 189, 147, 25, 2, 218, 211, 175, 1, 20, 110, 124, 249, 181, 110, 152,
         215, 201, 163, 203, 198, 103, 56, 87, 65, 114, 152, 145, 39, 59, 53, 197 >>,
      << 172, 20, 212, 117, 55, 136, 162, 124, 172, 202, 181, 172, 254, 54, 139, 196,
         210, 19, 215, 156, 167, 107, 75, 73, 69, 109, 61, 160, 246, 40, 153, 110 >>,
      << 225, 5, 213, 9, 101, 68, 219, 23, 113, 19, 199, 42, 226, 95, 253, 181,
         147, 177, 39, 39, 95, 201, 138, 11, 219, 55, 194, 48, 55, 236, 62, 45 >>,
      << 171, 11, 210, 160, 48, 252, 91, 114, 36, 159, 34, 76, 145, 250, 95, 180,
         232, 67, 61, 44, 185, 193, 120, 220, 44, 109, 60, 210, 45, 159, 119, 226 >>,
      << 129, 212, 220, 142, 243, 54, 99, 6, 206, 57, 210, 102, 77, 251, 173, 79,
         168, 160, 44, 31, 125, 95, 25, 36, 239, 3, 92, 135, 109, 106, 234, 92 >>,
      << 119, 7, 223, 248, 97, 107, 10, 123, 70, 104, 69, 123, 134, 213, 46, 148,
         74, 211, 78, 8, 125, 238, 231, 109, 99, 226, 223, 123, 210, 200, 164, 80 >>,
      << 226, 153, 115, 198, 207, 177, 242, 21, 229, 51, 253, 205, 168, 217, 112, 19,
         63, 38, 190, 74, 163, 240, 21, 87, 209, 207, 27, 131, 4, 10, 1, 82 >>,
      << 25, 142, 168, 188, 223, 122, 181, 153, 3, 120, 24, 14, 212, 5, 134, 251,
         7, 251, 242, 95, 178, 105, 225, 125, 88, 76, 170, 162, 88, 34, 209, 54 >>,
      << 254, 218, 100, 218, 65, 142, 65, 239, 112, 184, 13, 34, 186, 35, 169, 27,
         58, 91, 50, 161, 18, 67, 224, 145, 188, 100, 244, 170, 198, 246, 56, 75 >>,
      << 67, 114, 215, 243, 72, 172, 159, 171, 95, 22, 246, 61, 253, 25, 221, 8,
         108, 26, 87, 120, 139, 94, 14, 216, 49, 129, 221, 250, 68, 152, 235, 123 >>,
      << 41, 133, 181, 210, 233, 92, 166, 41, 165, 88, 52, 110, 98, 144, 39, 166,
         147, 164, 0, 127, 125, 21, 168, 131, 153, 95, 185, 5, 10, 45, 211, 93 >>,
      << 78, 199, 76, 151, 63, 105, 125, 25, 108, 198, 37, 222, 113, 193, 192, 177,
         198, 132, 27, 105, 175, 176, 56, 164, 89, 27, 252, 128, 170, 206, 188, 118 >>,
      << 119, 103, 53, 106, 123, 152, 61, 104, 238, 163, 124, 2, 211, 42, 45, 209,
         135, 1, 35, 185, 27, 168, 192, 91, 59, 71, 91, 121, 50, 18, 109, 98 >>,
      << 186, 60, 71, 133, 230, 191, 121, 31, 185, 247, 25, 96, 197, 55, 201, 15,
         46, 150, 14, 218, 32, 250, 203, 50, 45, 56, 116, 43, 124, 185, 170, 139 >>,
      << 70, 199, 240, 129, 54, 253, 71, 182, 202, 195, 131, 243, 71, 124, 13, 2,
         161, 1, 63, 252, 111, 58, 95, 46, 61, 19, 81, 110, 131, 161, 132, 71 >>,
      << 207, 83, 242, 220, 230, 179, 181, 219, 237, 86, 16, 97, 186, 42, 72, 212,
         48, 13, 140, 251, 124, 254, 238, 67, 61, 120, 212, 158, 169, 143, 99, 97 >>,
      << 122, 58, 227, 63, 166, 181, 157, 55, 10, 10, 88, 126, 161, 199, 107, 176,
         74, 224, 238, 207, 241, 112, 117, 196, 125, 53, 58, 224, 41, 215, 75, 194 >>,
      << 30, 205, 42, 6, 172, 237, 76, 214, 98, 70, 78, 18, 106, 162, 24, 5,
         30, 29, 133, 163, 143, 226, 143, 83, 107, 110, 62, 40, 233, 30, 88, 80 >>,
      << 110, 58, 151, 230, 5, 150, 231, 175, 74, 91, 243, 249, 169, 198, 110, 21,
         205, 216, 233, 149, 84, 71, 39, 197, 176, 145, 201, 183, 35, 172, 98, 29 >>,
      << 160, 233, 69, 238, 20, 21, 37, 81, 104, 116, 141, 79, 124, 141, 158, 74,
         186, 28, 80, 62, 76, 40, 8, 222, 72, 1, 239, 143, 177, 99, 148, 202 >>,
      << 111, 224, 126, 254, 156, 1, 253, 163, 8, 231, 50, 163, 160, 191, 47, 194,
         132, 36, 26, 250, 71, 92, 104, 247, 211, 62, 174, 61, 10, 91, 12, 194 >>,
      << 254, 81, 230, 171, 52, 78, 28, 32, 76, 8, 117, 144, 55, 206, 3, 215,
         101, 219, 11, 91, 132, 199, 44, 49, 190, 143, 172, 187, 175, 112, 101, 127 >>,
      << 172, 131, 189, 232, 160, 238, 48, 26, 46, 13, 18, 249, 210, 64, 140, 247,
         33, 124, 142, 243, 94, 104, 147, 148, 154, 219, 50, 121, 124, 118, 163, 140 >>,
      << 190, 75, 214, 35, 208, 201, 39, 143, 73, 31, 4, 27, 79, 114, 137, 149,
         196, 180, 8, 85, 25, 241, 35, 111, 227, 191, 204, 234, 207, 235, 137, 253 >>,
      << 88, 22, 67, 10, 13, 136, 33, 173, 127, 26, 141, 62, 198, 178, 55, 209,
         231, 104, 212, 178, 161, 162, 4, 168, 196, 214, 0, 6, 110, 66, 141, 26 >>,
      << 215, 13, 142, 47, 199, 101, 183, 189, 74, 37, 58, 107, 171, 201, 73, 248,
         157, 240, 137, 12, 151, 47, 118, 143, 1, 200, 240, 121, 109, 195, 47, 60 >>,
      << 129, 197, 69, 65, 123, 67, 30, 241, 236, 149, 44, 223, 218, 253, 240, 198,
         60, 21, 75, 40, 236, 182, 165, 4, 167, 128, 245, 77, 9, 58, 203, 151 >>,
      << 134, 150, 144, 215, 163, 100, 207, 194, 209, 13, 43, 167, 178, 106, 207, 36,
         97, 190, 164, 5, 104, 48, 25, 4, 162, 46, 182, 90, 220, 164, 178, 58 >>,
      << 4, 169, 52, 122, 183, 117, 66, 153, 153, 92, 149, 18, 111, 88, 180, 3,
         86, 240, 107, 219, 57, 45, 188, 121, 167, 25, 232, 106, 195, 3, 29, 210 >>,
      << 29, 22, 70, 188, 130, 141, 8, 158, 237, 145, 65, 51, 119, 34, 198, 9,
         145, 185, 185, 89, 158, 237, 245, 94, 204, 197, 180, 172, 148, 5, 120, 247 >>,
      << 78, 75, 143, 252, 33, 71, 4, 219, 100, 115, 194, 78, 246, 178, 160, 46,
         104, 213, 247, 31, 46, 215, 93, 201, 98, 14, 85, 120, 182, 209, 247, 233 >>,
      << 69, 49, 194, 172, 90, 234, 216, 224, 207, 154, 103, 178, 118, 53, 65, 217,
         63, 79, 56, 167, 138, 63, 67, 147, 117, 36, 189, 117, 74, 61, 28, 89 >>,
      << 11, 221, 24, 169, 248, 127, 80, 197, 177, 242, 131, 66, 246, 196, 213, 249,
         132, 67, 72, 180, 8, 169, 203, 79, 225, 18, 165, 181, 68, 194, 216, 222 >>,
      << 55, 243, 107, 192, 249, 46, 237, 244, 3, 2, 109, 77, 64, 151, 255, 255,
         233, 99, 245, 118, 122, 230, 80, 30, 42, 69, 214, 105, 193, 85, 16, 168 >>,
      << 40, 138, 44, 140, 101, 243, 173, 163, 252, 231, 80, 120, 177, 183, 70, 31,
         133, 232, 35, 251, 107, 71, 74, 221, 7, 208, 123, 224, 163, 79, 31, 184 >>,
      << 23, 190, 13, 127, 246, 17, 70, 55, 64, 228, 31, 50, 26, 90, 50, 13,
         23, 103, 80, 202, 44, 89, 151, 7, 219, 137, 32, 46, 231, 31, 154, 25 >>,
      << 25, 168, 22, 241, 93, 148, 224, 112, 201, 196, 211, 105, 55, 30, 224, 114,
         71, 97, 119, 54, 139, 42, 169, 33, 205, 243, 125, 162, 137, 215, 42, 14 >>,
      << 58, 55, 248, 152, 62, 201, 181, 244, 86, 210, 246, 142, 219, 72, 160, 85,
         131, 157, 1, 46, 29, 123, 236, 201, 65, 253, 240, 233, 167, 13, 211, 53 >>,
      << 221, 145, 155, 208, 69, 122, 37, 97, 241, 159, 124, 12, 87, 247, 98, 162,
         232, 8, 232, 171, 72, 89, 174, 142, 194, 55, 65, 60, 29, 180, 26, 32 >>,
      << 63, 42, 178, 221, 43, 255, 132, 14, 204, 192, 81, 75, 148, 181, 38, 201,
         0, 124, 28, 72, 84, 29, 247, 70, 147, 29, 48, 152, 144, 136, 34, 59 >>,
      << 44, 154, 248, 89, 112, 232, 143, 112, 74, 138, 111, 252, 229, 4, 77, 77,
         210, 95, 182, 94, 229, 226, 221, 148, 90, 86, 240, 161, 224, 181, 77, 77 >>,
      << 119, 169, 165, 107, 200, 8, 219, 198, 89, 16, 167, 58, 164, 141, 48, 167,
         182, 156, 218, 29, 97, 172, 11, 133, 57, 26, 58, 32, 135, 236, 59, 68 >>,
      << 17, 180, 122, 76, 231, 248, 174, 22, 70, 191, 94, 187, 77, 119, 241, 236,
         7, 27, 12, 150, 61, 109, 33, 112, 113, 36, 113, 53, 156, 122, 19, 5 >>,
      << 225, 151, 211, 89, 252, 85, 9, 37, 215, 254, 113, 96, 79, 79, 59, 161,
         186, 71, 1, 97, 94, 199, 103, 167, 41, 124, 179, 206, 164, 79, 196, 51 >>,
      << 141, 81, 157, 249, 21, 204, 29, 124, 244, 101, 136, 206, 111, 214, 210, 12,
         79, 200, 2, 5, 23, 129, 255, 235, 94, 41, 96, 241, 213, 186, 244, 119 >>,
      << 207, 90, 94, 139, 190, 23, 179, 1, 45, 113, 227, 216, 144, 146, 197, 184,
         91, 168, 184, 79, 231, 209, 122, 189, 204, 41, 68, 100, 211, 197, 233, 228 >>,
      << 3, 59, 185, 7, 11, 126, 6, 185, 56, 162, 246, 149, 17, 105, 74, 212,
         119, 58, 244, 242, 6, 68, 63, 122, 173, 194, 128, 35, 94, 249, 235, 179 >>,
      << 129, 180, 209, 163, 165, 154, 135, 117, 244, 227, 145, 80, 26, 81, 82, 43,
         153, 171, 15, 112, 119, 198, 176, 117, 252, 121, 251, 159, 163, 238, 138, 45 >>,
      << 204, 23, 253, 245, 111, 117, 130, 52, 111, 247, 24, 186, 187, 240, 51, 165,
         43, 15, 167, 7, 167, 212, 53, 49, 174, 231, 103, 65, 95, 229, 92, 129 >>,
      << 217, 63, 127, 235, 154, 6, 248, 253, 184, 239, 139, 248, 32, 142, 97, 119,
         0, 220, 214, 163, 73, 204, 145, 200, 232, 100, 207, 204, 150, 22, 43, 182 >>,
      << 114, 200, 113, 144, 34, 249, 247, 91, 81, 77, 65, 101, 218, 129, 161, 152,
         195, 66, 103, 179, 127, 185, 242, 203, 171, 144, 38, 21, 93, 81, 218, 135 >>,
      << 185, 111, 191, 146, 129, 77, 10, 215, 2, 63, 202, 131, 71, 219, 143, 206,
         110, 192, 137, 230, 244, 151, 102, 182, 170, 90, 210, 114, 219, 33, 211, 203 >>,
      << 93, 170, 35, 16, 218, 229, 153, 137, 150, 114, 31, 74, 69, 151, 10, 129,
         106, 18, 16, 3, 153, 108, 93, 122, 11, 180, 220, 11, 199, 144, 194, 120 >>,
      << 38, 19, 172, 121, 215, 176, 172, 226, 200, 74, 145, 203, 138, 252, 46, 124,
         25, 36, 119, 196, 30, 218, 135, 57, 156, 221, 129, 155, 197, 223, 236, 241 >>,
      << 124, 118, 41, 106, 11, 222, 66, 38, 117, 203, 171, 136, 220, 126, 10, 29,
         67, 29, 93, 246, 87, 249, 27, 192, 244, 140, 201, 128, 139, 90, 51, 222 >>,
      << 49, 187, 235, 204, 128, 21, 64, 244, 34, 28, 12, 81, 1, 141, 109, 155,
         55, 238, 178, 203, 12, 169, 92, 161, 203, 116, 178, 255, 29, 255, 224, 22 >>,
      << 207, 122, 242, 173, 130, 191, 72, 47, 203, 215, 174, 70, 195, 111, 149, 131,
         192, 243, 160, 6, 242, 115, 151, 94, 120, 153, 208, 168, 123, 39, 147, 131 >>,
      << 242, 250, 30, 91, 55, 90, 161, 117, 114, 7, 156, 63, 160, 147, 123, 50,
         229, 180, 106, 172, 122, 32, 50, 203, 185, 243, 217, 154, 101, 26, 210, 2 >>,
      << 136, 2, 69, 163, 10, 115, 212, 3, 14, 162, 55, 128, 83, 101, 25, 159,
         26, 94, 125, 119, 103, 218, 131, 47, 191, 212, 210, 161, 73, 189, 34, 219 >>,
      << 39, 36, 151, 248, 166, 97, 171, 52, 228, 183, 183, 23, 66, 203, 232, 166,
         35, 185, 113, 244, 13, 235, 189, 214, 199, 216, 136, 153, 154, 7, 135, 170 >>,
      << 221, 57, 92, 177, 35, 86, 97, 8, 5, 144, 55, 68, 190, 180, 183, 149,
         237, 84, 122, 109, 122, 133, 118, 124, 131, 129, 205, 160, 143, 142, 197, 31 >>,
      << 202, 100, 253, 133, 219, 254, 28, 142, 243, 118, 104, 231, 239, 168, 114, 254,
         106, 84, 167, 102, 199, 236, 123, 32, 229, 239, 206, 89, 185, 107, 237, 11 >> >> )
  @@
  (   << 116, 68, 50, 88, 73, 46, 83, 213, 185, 126, 213, 232, 23, 78, 197, 162,
         141, 70, 204, 211, 109, 127, 11, 5, 84, 162, 18, 155, 213, 149, 207, 53,
         99, 107, 74, 37, 48, 30, 128, 241, 119, 167, 69, 166, 73, 147, 218, 70,
         238, 207, 216, 216, 210, 240, 226, 123, 129, 140, 132, 223, 40, 11, 225 >>
   :> <<
      << 51, 217, 15, 223, 40, 58, 89, 149, 33, 109, 101, 16, 228, 90, 240, 139,
         219, 225, 40, 231, 117, 89, 94, 29, 212, 63, 233, 38, 135, 248, 247, 250 >>,
      << 60, 52, 109, 60, 195, 23, 238, 48, 147, 102, 119, 81, 209, 219, 241, 39,
         222, 56, 63, 154, 171, 226, 140, 62, 57, 174, 116, 11, 150, 7, 40, 171 >>,
      << 113, 117, 59, 162, 236, 23, 122, 46, 190, 221, 2, 170, 246, 182, 227, 191,
         162, 229, 175, 73, 246, 70, 88, 191, 37, 45, 196, 61, 179, 42, 67, 29 >>,
      << 192, 227, 252, 106, 110, 11, 96, 123, 204, 154, 112, 190, 40, 114, 62, 253,
         177, 179, 217, 117, 217, 202, 147, 7, 48, 253, 12, 188, 102, 39, 137, 17 >>,
      << 155, 10, 152, 170, 51, 241, 173, 132, 151, 216, 174, 69, 149, 0, 255, 133,
         15, 46, 156, 182, 216, 67, 225, 145, 144, 150, 84, 91, 230, 194, 159, 88 >>,
      << 203, 115, 54, 145, 206, 83, 230, 186, 146, 167, 180, 179, 48, 201, 139, 241,
         110, 60, 25, 191, 44, 87, 33, 94, 186, 145, 191, 130, 55, 149, 87, 75 >>,
      << 75, 169, 17, 242, 140, 90, 246, 143, 59, 38, 134, 192, 104, 247, 155, 236,
         153, 190, 109, 230, 157, 233, 119, 23, 22, 26, 74, 104, 17, 192, 191, 82 >>,
      << 9, 254, 66, 83, 90, 172, 145, 99, 64, 156, 44, 195, 117, 79, 207, 54,
         237, 148, 235, 64, 148, 74, 27, 29, 81, 0, 46, 151, 207, 190, 222, 55 >>,
      << 62, 160, 207, 33, 186, 2, 165, 145, 119, 82, 16, 98, 197, 125, 96, 248,
         143, 181, 51, 82, 191, 215, 127, 23, 49, 241, 247, 156, 103, 147, 124, 205 >>,
      << 239, 86, 62, 100, 14, 164, 154, 75, 112, 194, 160, 192, 246, 3, 132, 214,
         55, 122, 78, 124, 168, 41, 36, 7, 78, 114, 51, 179, 229, 189, 156, 37 >>,
      << 60, 204, 78, 251, 149, 61, 172, 92, 80, 154, 217, 89, 79, 2, 31, 10,
         107, 166, 79, 32, 245, 175, 91, 149, 109, 179, 16, 211, 175, 69, 117, 78 >>,
      << 138, 54, 115, 24, 166, 127, 67, 208, 154, 179, 133, 73, 150, 125, 158, 117,
         155, 42, 188, 106, 87, 233, 33, 159, 88, 69, 159, 125, 104, 12, 114, 103 >>,
      << 147, 19, 57, 188, 35, 101, 223, 218, 90, 71, 40, 245, 1, 223, 233, 124,
         90, 82, 245, 189, 238, 189, 219, 120, 58, 16, 1, 252, 2, 81, 188, 86 >>,
      << 16, 82, 222, 172, 167, 89, 227, 229, 216, 96, 121, 131, 231, 252, 196, 44,
         241, 212, 90, 89, 76, 247, 183, 248, 143, 102, 214, 225, 229, 104, 110, 24 >>,
      << 123, 121, 228, 8, 143, 237, 93, 231, 131, 7, 119, 69, 110, 215, 177, 151,
         14, 170, 84, 136, 50, 76, 95, 54, 119, 84, 143, 37, 70, 229, 108, 154 >>,
      << 83, 63, 59, 226, 195, 102, 211, 124, 13, 196, 91, 108, 245, 114, 138, 83,
         134, 145, 245, 25, 237, 2, 99, 224, 222, 199, 184, 212, 62, 113, 74, 166 >>,
      << 28, 208, 77, 173, 39, 83, 121, 136, 0, 62, 190, 196, 115, 109, 36, 232,
         32, 71, 169, 246, 98, 160, 46, 69, 165, 126, 118, 17, 110, 142, 79, 174 >>,
      << 217, 146, 2, 16, 201, 225, 199, 42, 57, 158, 113, 114, 88, 99, 117, 253,
         102, 100, 242, 247, 70, 221, 70, 93, 245, 66, 170, 75, 223, 4, 199, 27 >>,
      << 58, 4, 209, 45, 87, 121, 177, 98, 10, 207, 225, 118, 17, 33, 7, 1,
         17, 102, 150, 69, 138, 186, 134, 153, 46, 205, 100, 141, 148, 140, 209, 100 >>,
      << 229, 42, 41, 240, 3, 109, 229, 6, 169, 78, 188, 162, 83, 206, 140, 144,
         68, 219, 63, 166, 202, 20, 162, 172, 164, 188, 220, 106, 85, 234, 214, 50 >>,
      << 253, 59, 31, 247, 25, 188, 68, 35, 40, 163, 235, 32, 105, 26, 142, 254,
         194, 16, 27, 172, 99, 170, 156, 47, 13, 127, 89, 148, 142, 203, 235, 135 >>,
      << 28, 173, 248, 73, 208, 171, 202, 185, 222, 34, 128, 53, 254, 239, 193, 50,
         136, 179, 111, 117, 97, 52, 180, 108, 50, 37, 226, 209, 67, 15, 209, 83 >>,
      << 37, 230, 89, 220, 49, 67, 74, 214, 54, 233, 150, 38, 7, 62, 8, 195,
         132, 73, 97, 162, 226, 193, 170, 16, 171, 23, 50, 245, 249, 15, 17, 71 >>,
      << 188, 114, 122, 140, 30, 183, 50, 99, 215, 125, 50, 43, 80, 47, 167, 218,
         113, 252, 55, 56, 191, 6, 26, 5, 198, 134, 195, 164, 229, 68, 239, 229 >>,
      << 217, 93, 26, 57, 235, 131, 55, 10, 92, 196, 61, 64, 86, 239, 54, 51,
         162, 223, 109, 163, 218, 92, 202, 61, 81, 40, 242, 17, 161, 6, 93, 183 >>,
      << 93, 178, 105, 218, 122, 213, 1, 146, 191, 41, 82, 185, 154, 253, 96, 237,
         219, 132, 227, 83, 11, 58, 15, 111, 133, 56, 71, 101, 11, 251, 72, 46 >>,
      << 14, 110, 134, 191, 94, 234, 155, 134, 156, 188, 103, 56, 100, 231, 131, 148,
         213, 242, 129, 133, 149, 87, 0, 85, 165, 127, 245, 105, 173, 38, 151, 39 >>,
      << 76, 35, 15, 151, 251, 38, 62, 45, 149, 202, 198, 200, 28, 150, 137, 169,
         251, 56, 72, 148, 185, 52, 226, 86, 60, 141, 53, 112, 53, 219, 53, 233 >>,
      << 69, 252, 188, 126, 153, 93, 67, 118, 60, 7, 83, 48, 185, 219, 97, 175,
         164, 183, 65, 118, 114, 178, 181, 52, 239, 2, 8, 91, 15, 225, 164, 167 >>,
      << 228, 91, 161, 150, 144, 120, 50, 253, 166, 190, 255, 223, 48, 1, 108, 51,
         108, 86, 27, 124, 206, 13, 240, 213, 179, 201, 147, 62, 62, 111, 192, 127 >>,
      << 25, 208, 230, 109, 182, 80, 223, 139, 205, 213, 164, 48, 105, 39, 58, 59,
         159, 83, 144, 149, 95, 177, 136, 14, 118, 137, 193, 55, 251, 25, 238, 80 >>,
      << 213, 210, 185, 153, 143, 56, 85, 250, 171, 2, 118, 206, 168, 51, 217, 0,
         70, 158, 128, 36, 178, 215, 192, 94, 228, 185, 84, 242, 77, 14, 223, 201 >>,
      << 91, 172, 190, 209, 69, 115, 154, 157, 209, 20, 184, 14, 33, 112, 38, 153,
         254, 143, 108, 156, 39, 110, 243, 115, 103, 169, 148, 213, 96, 226, 121, 186 >>,
      << 49, 148, 230, 30, 208, 234, 174, 240, 42, 113, 172, 38, 208, 174, 210, 193,
         45, 56, 51, 93, 13, 139, 222, 116, 133, 87, 221, 123, 224, 204, 101, 148 >>,
      << 218, 238, 228, 193, 85, 43, 42, 136, 228, 111, 34, 224, 38, 188, 2, 75,
         16, 242, 60, 191, 126, 252, 215, 217, 139, 94, 194, 215, 243, 252, 221, 91 >>,
      << 104, 247, 128, 231, 2, 167, 154, 101, 115, 205, 167, 238, 78, 136, 237, 84,
         11, 22, 13, 171, 158, 45, 175, 125, 167, 164, 237, 1, 129, 65, 146, 65 >>,
      << 246, 201, 33, 172, 3, 15, 111, 134, 222, 56, 251, 21, 37, 46, 203, 85,
         54, 36, 45, 230, 42, 167, 44, 49, 143, 50, 25, 168, 240, 119, 196, 238 >>,
      << 183, 189, 36, 206, 113, 157, 221, 212, 19, 241, 195, 93, 62, 10, 43, 182,
         244, 44, 179, 179, 70, 55, 116, 54, 165, 169, 155, 216, 114, 245, 227, 27 >>,
      << 140, 103, 194, 142, 80, 22, 66, 36, 45, 165, 255, 198, 7, 92, 138, 41,
         55, 165, 246, 59, 205, 84, 251, 149, 152, 49, 70, 50, 8, 90, 172, 193 >>,
      << 252, 131, 136, 6, 27, 9, 191, 18, 176, 109, 135, 19, 152, 21, 24, 242,
         178, 112, 207, 33, 37, 199, 204, 28, 190, 111, 117, 212, 41, 80, 80, 220 >>,
      << 56, 119, 101, 165, 213, 36, 34, 117, 54, 242, 204, 139, 160, 130, 155, 78,
         194, 215, 101, 35, 138, 185, 241, 18, 193, 123, 79, 136, 132, 158, 94, 188 >>,
      << 11, 90, 7, 208, 44, 210, 112, 165, 194, 253, 45, 44, 146, 174, 121, 59,
         231, 168, 12, 179, 110, 57, 91, 37, 233, 69, 137, 44, 30, 7, 248, 21 >>,
      << 53, 164, 18, 117, 137, 22, 180, 160, 80, 22, 130, 16, 94, 179, 88, 121,
         98, 119, 205, 162, 79, 185, 199, 161, 45, 204, 250, 85, 41, 45, 40, 95 >>,
      << 161, 228, 201, 5, 103, 37, 44, 192, 47, 248, 160, 157, 211, 80, 18, 217,
         213, 188, 41, 17, 47, 246, 22, 11, 164, 138, 126, 99, 203, 215, 21, 6 >>,
      << 81, 88, 189, 157, 247, 85, 169, 197, 156, 255, 151, 26, 137, 218, 161, 169,
         56, 207, 141, 226, 240, 201, 112, 137, 212, 132, 244, 159, 250, 218, 106, 177 >>,
      << 245, 163, 244, 115, 5, 212, 56, 36, 102, 155, 13, 119, 158, 35, 157, 218,
         222, 36, 26, 221, 0, 108, 191, 179, 229, 147, 201, 113, 30, 63, 29, 0 >>,
      << 167, 14, 77, 212, 184, 154, 133, 55, 169, 31, 90, 194, 131, 158, 186, 38,
         115, 93, 34, 66, 164, 91, 158, 134, 4, 176, 57, 95, 92, 124, 180, 77 >>,
      << 157, 188, 230, 238, 171, 192, 157, 58, 178, 54, 155, 70, 46, 68, 94, 169,
         161, 112, 105, 166, 35, 51, 179, 36, 115, 219, 23, 20, 87, 173, 111, 50 >>,
      << 215, 56, 78, 116, 87, 0, 227, 177, 133, 11, 116, 72, 244, 228, 160, 107,
         39, 251, 171, 0, 79, 202, 167, 121, 146, 240, 237, 250, 12, 16, 109, 116 >>,
      << 106, 142, 247, 28, 242, 57, 216, 38, 90, 246, 22, 190, 198, 214, 117, 50,
         143, 190, 158, 131, 71, 86, 131, 249, 29, 236, 94, 87, 24, 94, 61, 50 >>,
      << 184, 13, 141, 111, 66, 238, 55, 110, 97, 216, 107, 107, 154, 248, 50, 86,
         8, 150, 22, 217, 131, 171, 87, 166, 91, 172, 46, 177, 85, 90, 167, 178 >>,
      << 152, 120, 168, 0, 204, 247, 38, 172, 245, 183, 25, 28, 159, 15, 43, 225,
         150, 113, 76, 209, 179, 97, 38, 40, 66, 1, 170, 10, 181, 62, 81, 207 >>,
      << 60, 102, 60, 233, 177, 14, 183, 240, 182, 176, 53, 198, 204, 173, 63, 139,
         207, 27, 155, 134, 19, 76, 31, 92, 167, 5, 20, 65, 12, 195, 247, 54 >>,
      << 133, 251, 219, 104, 240, 203, 144, 213, 165, 255, 118, 93, 12, 185, 147, 90,
         236, 139, 25, 89, 85, 67, 98, 65, 12, 181, 99, 120, 241, 98, 58, 14 >>,
      << 109, 188, 162, 36, 66, 235, 2, 102, 117, 249, 33, 89, 249, 57, 149, 55,
         240, 138, 4, 217, 45, 215, 85, 183, 169, 51, 151, 71, 201, 77, 209, 122 >>,
      << 203, 210, 58, 122, 173, 238, 80, 238, 174, 181, 186, 125, 77, 145, 236, 76,
         205, 209, 169, 7, 46, 20, 178, 153, 11, 180, 113, 97, 13, 228, 233, 135 >>,
      << 220, 156, 117, 143, 17, 182, 53, 54, 112, 180, 176, 238, 29, 231, 240, 209,
         147, 36, 215, 94, 23, 124, 167, 226, 33, 35, 224, 26, 159, 62, 35, 245 >>,
      << 0, 122, 94, 58, 42, 64, 211, 80, 120, 215, 126, 246, 180, 144, 130, 59,
         211, 66, 212, 192, 225, 150, 213, 200, 231, 33, 199, 176, 229, 181, 69, 43 >>,
      << 76, 105, 181, 58, 59, 219, 255, 116, 53, 87, 170, 23, 64, 159, 180, 56,
         230, 249, 186, 27, 24, 125, 195, 236, 31, 184, 38, 87, 83, 101, 231, 7 >>,
      << 29, 7, 254, 240, 171, 44, 129, 30, 186, 19, 215, 165, 23, 218, 197, 217,
         240, 118, 29, 74, 162, 244, 19, 75, 120, 47, 78, 224, 228, 157, 96, 172 >>,
      << 51, 246, 101, 29, 63, 51, 231, 106, 224, 27, 14, 90, 101, 162, 81, 14,
         10, 109, 31, 228, 235, 115, 194, 92, 199, 163, 233, 243, 129, 197, 7, 203 >>,
      << 240, 209, 121, 206, 98, 83, 201, 212, 47, 74, 141, 252, 154, 121, 103, 120,
         106, 247, 13, 90, 148, 239, 122, 238, 131, 136, 79, 9, 146, 14, 191, 46 >>,
      << 91, 152, 2, 223, 111, 120, 206, 130, 251, 4, 43, 248, 151, 58, 29, 35,
         202, 59, 32, 3, 152, 1, 37, 235, 8, 221, 22, 200, 123, 205, 253, 101 >>,
      << 49, 93, 123, 62, 9, 57, 189, 237, 80, 229, 70, 11, 87, 30, 246, 71,
         19, 67, 47, 23, 173, 175, 191, 66, 16, 3, 127, 12, 150, 82, 97, 209 >>,
      << 217, 126, 210, 139, 67, 123, 106, 137, 109, 98, 15, 40, 105, 32, 43, 254,
         138, 140, 128, 112, 86, 13, 128, 116, 93, 169, 61, 170, 203, 205, 214, 22 >>,
      << 184, 71, 121, 36, 84, 218, 231, 162, 102, 176, 81, 249, 192, 244, 243, 63,
         119, 23, 166, 18, 214, 204, 159, 159, 210, 118, 200, 136, 206, 86, 21, 248 >>,
      << 137, 154, 100, 143, 117, 130, 215, 0, 222, 170, 102, 244, 33, 134, 92, 84,
         97, 183, 183, 188, 208, 73, 108, 60, 48, 223, 171, 118, 144, 22, 56, 249 >>,
      << 146, 135, 194, 33, 36, 185, 163, 96, 199, 88, 196, 102, 249, 92, 174, 28,
         65, 150, 1, 112, 167, 197, 31, 245, 100, 168, 102, 194, 169, 31, 109, 110 >>,
      << 57, 70, 135, 118, 123, 155, 223, 163, 205, 217, 131, 253, 56, 37, 92, 143,
         212, 235, 215, 128, 109, 145, 29, 154, 82, 115, 108, 120, 140, 109, 162, 31 >>,
      << 148, 166, 145, 114, 211, 199, 137, 168, 170, 93, 232, 186, 212, 22, 36, 154,
         55, 166, 68, 159, 217, 128, 184, 5, 6, 71, 29, 249, 107, 94, 46, 152 >>,
      << 10, 47, 157, 236, 238, 163, 253, 235, 6, 122, 58, 222, 67, 142, 201, 80,
         85, 107, 230, 101, 237, 194, 149, 149, 13, 205, 65, 171, 18, 110, 252, 6 >>,
      << 48, 46, 8, 150, 147, 164, 191, 227, 255, 131, 82, 18, 226, 24, 90, 178,
         192, 40, 175, 19, 241, 218, 38, 147, 109, 36, 220, 98, 215, 229, 29, 192 >>,
      << 184, 168, 251, 132, 189, 156, 207, 99, 186, 237, 27, 93, 114, 217, 233, 108,
         46, 171, 95, 201, 230, 137, 175, 84, 90, 254, 126, 188, 121, 203, 13, 120 >>,
      << 111, 154, 237, 182, 141, 86, 181, 146, 4, 71, 108, 240, 171, 244, 38, 234,
         250, 96, 143, 108, 143, 184, 232, 219, 245, 193, 43, 72, 246, 184, 151, 126 >>,
      << 33, 59, 192, 17, 224, 176, 35, 79, 84, 221, 117, 24, 182, 136, 160, 189,
         212, 28, 228, 7, 182, 10, 191, 21, 7, 228, 226, 98, 199, 90, 67, 45 >>,
      << 21, 138, 218, 224, 179, 94, 127, 1, 114, 64, 116, 162, 79, 141, 62, 42,
         107, 176, 224, 171, 96, 213, 160, 13, 41, 178, 244, 12, 42, 145, 51, 174 >>,
      << 183, 48, 211, 71, 25, 207, 17, 147, 32, 110, 3, 133, 182, 180, 212, 111,
         145, 122, 114, 225, 254, 81, 231, 225, 214, 255, 83, 59, 234, 192, 237, 131 >>,
      << 214, 194, 226, 121, 4, 8, 57, 213, 13, 169, 137, 125, 156, 214, 118, 230,
         143, 238, 90, 40, 61, 122, 164, 107, 90, 135, 167, 41, 178, 241, 32, 111 >>,
      << 133, 30, 136, 112, 45, 145, 19, 253, 174, 222, 224, 23, 90, 94, 55, 75,
         57, 63, 244, 79, 72, 81, 157, 9, 45, 153, 211, 130, 65, 44, 168, 42 >>,
      << 164, 239, 202, 228, 6, 219, 73, 130, 16, 131, 11, 154, 2, 154, 180, 74,
         170, 145, 245, 183, 89, 32, 133, 225, 102, 130, 65, 143, 7, 4, 138, 22 >>,
      << 114, 147, 225, 180, 5, 68, 206, 244, 155, 34, 201, 163, 209, 14, 154, 103,
         116, 246, 75, 69, 122, 77, 236, 239, 49, 33, 200, 206, 31, 208, 22, 247 >>,
      << 237, 49, 25, 111, 187, 92, 58, 232, 96, 227, 70, 87, 175, 253, 170, 3,
         9, 104, 1, 57, 17, 166, 61, 184, 218, 39, 16, 145, 95, 241, 30, 225 >>,
      << 56, 87, 72, 80, 108, 4, 104, 95, 154, 19, 176, 16, 107, 183, 214, 202,
         246, 47, 16, 105, 131, 99, 17, 194, 145, 232, 187, 242, 56, 208, 252, 208 >>,
      << 156, 7, 66, 119, 184, 184, 54, 140, 155, 96, 244, 74, 214, 54, 171, 144,
         193, 143, 188, 110, 76, 156, 85, 222, 225, 90, 102, 84, 141, 83, 179, 226 >>,
      << 248, 64, 84, 77, 44, 187, 176, 132, 4, 61, 127, 53, 77, 189, 233, 143,
         163, 219, 216, 168, 232, 46, 108, 190, 188, 88, 29, 67, 6, 171, 174, 20 >>,
      << 36, 84, 62, 122, 226, 115, 58, 111, 240, 191, 192, 15, 3, 229, 132, 244,
         233, 33, 111, 173, 27, 199, 195, 36, 33, 156, 224, 26, 247, 195, 186, 120 >>,
      << 213, 156, 160, 216, 71, 66, 110, 66, 158, 12, 217, 57, 152, 184, 223, 195,
         204, 222, 196, 68, 161, 89, 135, 99, 40, 49, 169, 252, 60, 74, 10, 46 >>,
      << 103, 169, 130, 58, 15, 19, 99, 128, 15, 130, 119, 160, 249, 29, 90, 5,
         115, 141, 127, 6, 184, 255, 63, 76, 218, 81, 140, 203, 255, 101, 216, 199 >>,
      << 14, 95, 48, 246, 222, 253, 190, 222, 111, 114, 201, 37, 143, 250, 51, 47,
         229, 21, 203, 84, 92, 35, 53, 72, 15, 149, 114, 150, 23, 45, 176, 241 >>,
      << 243, 131, 86, 181, 88, 161, 23, 22, 63, 129, 70, 21, 97, 45, 31, 134,
         141, 61, 78, 177, 12, 185, 38, 174, 82, 232, 236, 200, 162, 212, 173, 60 >>,
      << 44, 36, 207, 182, 171, 35, 241, 38, 42, 53, 85, 80, 179, 167, 144, 44,
         212, 173, 91, 185, 124, 82, 80, 244, 3, 170, 222, 30, 249, 183, 211, 77 >>,
      << 241, 70, 163, 119, 174, 63, 179, 194, 31, 23, 46, 220, 122, 79, 160, 94,
         224, 240, 37, 173, 218, 179, 48, 26, 103, 214, 47, 126, 84, 127, 132, 66 >>,
      << 250, 32, 133, 82, 171, 223, 117, 6, 26, 119, 129, 172, 182, 65, 20, 18,
         160, 175, 148, 144, 78, 34, 85, 250, 56, 38, 88, 246, 191, 1, 149, 4 >>,
      << 253, 111, 183, 189, 188, 237, 205, 115, 55, 31, 205, 176, 239, 66, 38, 159,
         197, 145, 164, 53, 172, 139, 106, 136, 209, 91, 82, 193, 219, 61, 0, 50 >>,
      << 5, 95, 121, 105, 228, 27, 229, 156, 195, 57, 162, 209, 168, 79, 33, 112,
         136, 140, 159, 164, 219, 26, 60, 237, 207, 211, 82, 153, 19, 168, 28, 12 >>,
      << 243, 42, 185, 20, 207, 255, 180, 196, 79, 186, 191, 148, 60, 180, 202, 195,
         38, 28, 211, 99, 214, 50, 238, 76, 182, 107, 118, 3, 103, 55, 34, 249 >>,
      << 171, 30, 119, 175, 103, 96, 74, 51, 10, 107, 191, 127, 143, 12, 7, 154,
         16, 105, 71, 50, 21, 142, 245, 135, 214, 224, 219, 241, 138, 190, 121, 179 >>,
      << 183, 236, 96, 255, 240, 210, 215, 30, 20, 138, 227, 94, 223, 4, 14, 138,
         191, 148, 188, 23, 200, 164, 117, 1, 75, 237, 252, 4, 14, 106, 31, 206 >>,
      << 238, 142, 4, 136, 59, 69, 3, 205, 234, 149, 221, 25, 54, 246, 158, 93,
         3, 136, 216, 103, 206, 84, 209, 153, 52, 131, 34, 183, 78, 83, 175, 113 >>,
      << 36, 59, 19, 232, 133, 149, 11, 59, 10, 49, 222, 134, 151, 205, 236, 246,
         89, 205, 94, 103, 84, 250, 33, 68, 179, 82, 216, 160, 41, 240, 176, 197 >>,
      << 28, 154, 223, 182, 4, 244, 171, 117, 97, 24, 73, 106, 45, 246, 190, 202,
         27, 66, 166, 74, 175, 125, 171, 24, 175, 220, 107, 154, 81, 45, 36, 27 >>,
      << 195, 214, 254, 147, 132, 86, 232, 124, 42, 223, 246, 205, 194, 178, 213, 17,
         118, 42, 233, 74, 255, 145, 255, 172, 80, 209, 191, 231, 223, 251, 98, 186 >>,
      << 52, 61, 112, 225, 104, 195, 88, 24, 231, 123, 106, 101, 215, 91, 178, 64,
         22, 202, 171, 209, 202, 32, 22, 95, 115, 160, 88, 77, 121, 35, 6, 95 >>,
      << 6, 116, 34, 14, 207, 58, 214, 201, 38, 235, 54, 32, 210, 144, 156, 236,
         216, 243, 90, 238, 172, 216, 103, 178, 243, 135, 239, 14, 192, 88, 239, 225 >>,
      << 156, 32, 109, 131, 56, 150, 128, 223, 100, 20, 161, 181, 189, 131, 135, 88,
         134, 180, 26, 1, 91, 227, 66, 103, 192, 129, 223, 223, 77, 236, 0, 190 >>,
      << 1, 245, 81, 156, 48, 72, 23, 151, 7, 234, 89, 249, 221, 17, 216, 133,
         100, 18, 47, 46, 148, 49, 97, 191, 75, 83, 71, 131, 59, 188, 240, 249 >>,
      << 108, 96, 202, 107, 64, 243, 127, 161, 1, 15, 194, 245, 30, 63, 16, 88,
         231, 12, 150, 119, 101, 217, 239, 106, 125, 247, 20, 95, 15, 99, 12, 47 >>,
      << 165, 212, 61, 139, 190, 226, 116, 198, 4, 96, 220, 224, 182, 212, 49, 9,
         3, 37, 252, 167, 123, 73, 216, 138, 167, 67, 200, 64, 144, 51, 200, 148 >>,
      << 10, 175, 59, 221, 7, 50, 162, 155, 113, 173, 153, 128, 84, 56, 255, 218,
         175, 234, 47, 191, 96, 248, 208, 137, 36, 55, 103, 211, 19, 168, 186, 47 >>,
      << 61, 153, 193, 68, 165, 82, 189, 118, 11, 206, 142, 190, 246, 185, 200, 129,
         122, 207, 175, 33, 188, 36, 50, 109, 81, 120, 28, 182, 168, 5, 195, 4 >>,
      << 53, 172, 151, 248, 70, 204, 189, 250, 251, 39, 132, 102, 226, 16, 167, 91,
         41, 108, 206, 148, 164, 238, 2, 177, 47, 255, 132, 101, 64, 40, 206, 13 >>,
      << 113, 115, 193, 251, 246, 127, 243, 169, 114, 27, 82, 98, 94, 149, 225, 203,
         137, 40, 49, 49, 220, 39, 151, 156, 6, 195, 96, 134, 39, 195, 166, 76 >>,
      << 244, 224, 94, 18, 124, 164, 249, 53, 148, 99, 27, 232, 142, 246, 190, 107,
         244, 239, 146, 12, 160, 165, 200, 189, 75, 120, 77, 112, 218, 35, 79, 7 >>,
      << 221, 100, 46, 149, 154, 176, 40, 128, 117, 41, 165, 17, 14, 122, 212, 2,
         79, 207, 58, 211, 7, 41, 40, 12, 107, 165, 52, 162, 110, 176, 220, 132 >>,
      << 108, 43, 143, 167, 78, 187, 183, 39, 173, 138, 147, 128, 129, 193, 245, 248,
         225, 126, 21, 0, 253, 132, 110, 188, 189, 7, 41, 97, 92, 40, 74, 206 >>,
      << 78, 30, 184, 40, 173, 142, 1, 176, 51, 204, 54, 159, 175, 174, 216, 168,
         147, 246, 41, 35, 164, 41, 208, 188, 34, 191, 176, 251, 154, 219, 109, 239 >>,
      << 236, 244, 214, 62, 99, 249, 178, 249, 29, 229, 138, 113, 144, 199, 20, 26,
         206, 194, 190, 114, 197, 56, 7, 107, 61, 17, 197, 156, 91, 218, 202, 193 >>,
      << 152, 107, 17, 99, 236, 58, 206, 218, 229, 71, 118, 56, 53, 151, 205, 82,
         97, 115, 240, 176, 164, 132, 180, 253, 36, 52, 158, 130, 108, 254, 235, 28 >>,
      << 246, 243, 39, 45, 144, 80, 152, 99, 242, 190, 104, 139, 22, 16, 30, 106,
         51, 59, 46, 251, 149, 223, 230, 220, 207, 186, 235, 76, 161, 13, 151, 2 >>,
      << 239, 170, 231, 214, 175, 98, 219, 178, 221, 59, 170, 195, 147, 60, 154, 231,
         41, 236, 219, 156, 179, 108, 162, 65, 106, 107, 170, 191, 120, 123, 8, 225 >>,
      << 134, 32, 205, 159, 8, 1, 212, 170, 22, 87, 73, 207, 181, 23, 47, 230,
         211, 179, 135, 20, 112, 103, 201, 74, 219, 215, 162, 254, 33, 99, 153, 8 >>,
      << 193, 219, 232, 44, 120, 217, 245, 154, 195, 198, 241, 77, 181, 248, 79, 206,
         177, 129, 86, 248, 67, 156, 153, 32, 66, 206, 171, 118, 23, 189, 77, 190 >>,
      << 84, 71, 99, 236, 111, 202, 252, 119, 87, 14, 70, 197, 144, 110, 176, 235,
         252, 179, 107, 39, 111, 181, 140, 107, 122, 192, 238, 131, 195, 89, 193, 113 >>,
      << 6, 91, 24, 21, 32, 31, 209, 79, 223, 196, 196, 80, 118, 135, 100, 162,
         41, 89, 180, 11, 51, 156, 208, 228, 216, 204, 118, 118, 169, 6, 28, 223 >>,
      << 82, 241, 58, 202, 133, 21, 233, 160, 43, 121, 246, 236, 117, 205, 59, 197,
         140, 87, 5, 239, 43, 175, 152, 188, 51, 204, 86, 190, 4, 163, 249, 206 >>,
      << 100, 90, 1, 177, 69, 238, 210, 91, 123, 138, 248, 226, 197, 68, 164, 12,
         157, 162, 139, 249, 230, 91, 64, 81, 97, 27, 97, 138, 110, 176, 247, 236 >>,
      << 13, 118, 89, 18, 78, 68, 119, 43, 86, 5, 231, 193, 248, 47, 3, 131,
         106, 222, 229, 90, 179, 129, 50, 182, 153, 243, 1, 26, 10, 94, 188, 243 >>,
      << 168, 195, 77, 184, 125, 11, 41, 156, 215, 186, 189, 48, 64, 92, 62, 119,
         7, 43, 68, 20, 248, 163, 187, 242, 82, 157, 102, 127, 193, 211, 187, 100 >>,
      << 146, 241, 146, 219, 33, 140, 38, 118, 187, 71, 220, 74, 152, 32, 133, 124,
         130, 161, 25, 114, 26, 154, 98, 48, 100, 229, 151, 40, 88, 83, 224, 48 >>,
      << 144, 244, 251, 17, 52, 224, 228, 147, 100, 15, 196, 8, 27, 247, 33, 18,
         208, 200, 192, 14, 181, 9, 184, 70, 116, 33, 78, 130, 231, 160, 133, 126 >>,
      << 90, 162, 75, 164, 111, 105, 184, 144, 168, 136, 207, 110, 135, 7, 60, 132,
         31, 127, 57, 124, 132, 11, 114, 40, 74, 120, 199, 29, 40, 208, 14, 84 >>,
      << 31, 30, 139, 80, 95, 0, 4, 57, 54, 13, 112, 8, 253, 96, 161, 112,
         119, 222, 138, 240, 40, 112, 95, 213, 129, 160, 114, 168, 221, 20, 54, 10 >>,
      << 204, 35, 214, 75, 8, 226, 153, 183, 143, 94, 56, 42, 156, 119, 20, 174,
         10, 87, 39, 151, 218, 223, 2, 243, 120, 56, 1, 142, 179, 107, 59, 196 >>,
      << 255, 102, 185, 223, 57, 233, 231, 77, 156, 239, 93, 116, 119, 22, 34, 181,
         121, 221, 50, 219, 73, 171, 133, 48, 230, 178, 199, 131, 217, 15, 47, 148 >>,
      << 231, 216, 84, 183, 57, 209, 92, 222, 20, 182, 20, 113, 77, 58, 249, 77,
         53, 133, 17, 105, 201, 2, 83, 41, 41, 170, 153, 68, 73, 88, 159, 162 >>,
      << 213, 57, 114, 113, 110, 56, 155, 162, 228, 234, 98, 53, 249, 233, 139, 185,
         20, 76, 202, 60, 142, 166, 213, 91, 246, 127, 218, 56, 122, 234, 167, 243 >>,
      << 190, 148, 143, 200, 180, 6, 232, 167, 94, 120, 101, 196, 192, 139, 99, 107,
         155, 107, 186, 136, 153, 241, 66, 83, 132, 232, 93, 72, 66, 212, 150, 121 >>,
      << 52, 237, 69, 25, 197, 236, 249, 105, 244, 193, 90, 249, 136, 2, 171, 85,
         96, 168, 3, 142, 131, 7, 39, 175, 87, 48, 223, 176, 160, 207, 60, 211 >>,
      << 210, 246, 246, 184, 112, 199, 83, 157, 67, 210, 23, 124, 227, 177, 40, 239,
         66, 120, 163, 87, 4, 220, 156, 84, 129, 129, 66, 184, 227, 200, 136, 124 >>,
      << 16, 147, 37, 234, 94, 246, 80, 97, 171, 32, 26, 158, 187, 186, 3, 138,
         73, 189, 197, 180, 78, 91, 78, 58, 51, 132, 51, 168, 133, 221, 233, 231 >>,
      << 88, 61, 203, 215, 232, 94, 121, 252, 45, 102, 105, 14, 178, 247, 241, 147,
         146, 81, 142, 203, 47, 195, 207, 21, 30, 160, 181, 209, 16, 168, 186, 85 >>,
      << 235, 102, 184, 243, 201, 29, 48, 26, 218, 100, 60, 234, 32, 196, 229, 22,
         166, 167, 82, 62, 119, 0, 219, 41, 109, 13, 180, 190, 206, 250, 189, 182 >>,
      << 174, 33, 26, 101, 220, 98, 10, 191, 241, 183, 93, 230, 79, 33, 149, 245,
         169, 141, 248, 222, 75, 92, 96, 107, 7, 189, 230, 37, 104, 7, 53, 124 >>,
      << 9, 151, 179, 165, 171, 117, 236, 187, 22, 244, 205, 174, 149, 201, 44, 137,
         137, 95, 242, 169, 225, 38, 91, 162, 178, 50, 162, 103, 236, 225, 194, 35 >>,
      << 165, 191, 252, 254, 153, 118, 229, 202, 73, 182, 179, 87, 108, 43, 230, 225,
         20, 69, 176, 68, 4, 35, 175, 20, 250, 23, 158, 221, 225, 53, 174, 71 >>,
      << 84, 242, 5, 118, 99, 39, 152, 7, 78, 78, 32, 227, 158, 15, 233, 84,
         153, 177, 236, 130, 166, 157, 162, 212, 156, 162, 223, 148, 100, 105, 86, 172 >>,
      << 163, 212, 186, 121, 28, 89, 143, 188, 203, 3, 169, 85, 198, 158, 38, 116,
         220, 38, 66, 118, 186, 123, 196, 80, 59, 89, 130, 210, 12, 83, 190, 66 >>,
      << 60, 141, 198, 19, 210, 199, 198, 160, 211, 70, 174, 238, 129, 181, 234, 195,
         124, 85, 10, 85, 67, 9, 234, 3, 77, 180, 252, 106, 163, 211, 223, 187 >>,
      << 181, 171, 23, 89, 50, 228, 188, 103, 156, 79, 234, 178, 223, 32, 36, 198,
         204, 196, 116, 82, 40, 34, 47, 184, 76, 96, 76, 207, 130, 211, 200, 183 >>,
      << 130, 31, 160, 204, 221, 2, 243, 145, 25, 231, 41, 221, 192, 206, 79, 101,
         184, 149, 165, 238, 238, 227, 196, 182, 210, 149, 38, 78, 4, 112, 173, 35 >>,
      << 128, 163, 77, 57, 143, 120, 200, 179, 138, 70, 34, 26, 171, 220, 49, 255,
         226, 178, 128, 194, 163, 167, 153, 101, 250, 51, 199, 115, 126, 83, 110, 55 >>,
      << 242, 57, 4, 144, 240, 67, 237, 155, 112, 27, 12, 164, 159, 69, 126, 160,
         221, 139, 73, 156, 206, 222, 222, 161, 187, 128, 191, 181, 114, 83, 0, 21 >>,
      << 110, 39, 186, 147, 234, 234, 112, 186, 52, 159, 71, 207, 176, 59, 20, 87,
         76, 98, 82, 137, 103, 195, 230, 192, 24, 70, 124, 241, 34, 1, 189, 116 >>,
      << 225, 50, 238, 87, 75, 242, 81, 1, 112, 104, 219, 146, 34, 179, 20, 158,
         91, 158, 52, 222, 252, 91, 198, 67, 60, 159, 174, 225, 80, 210, 179, 29 >>,
      << 233, 63, 29, 77, 240, 85, 142, 173, 52, 191, 89, 124, 63, 125, 89, 232,
         39, 138, 9, 52, 130, 163, 97, 170, 162, 129, 251, 168, 229, 138, 24, 0 >>,
      << 189, 203, 255, 33, 146, 150, 70, 222, 120, 116, 47, 8, 68, 24, 103, 55,
         202, 130, 91, 226, 243, 158, 136, 32, 202, 74, 70, 35, 96, 190, 203, 96 >>,
      << 12, 46, 40, 124, 210, 225, 93, 143, 172, 164, 144, 142, 103, 99, 101, 246,
         100, 112, 19, 126, 69, 192, 154, 96, 136, 48, 122, 64, 143, 215, 203, 71 >>,
      << 63, 161, 209, 54, 202, 86, 62, 187, 235, 19, 197, 44, 186, 77, 168, 166,
         53, 152, 59, 116, 69, 39, 252, 144, 45, 236, 239, 96, 21, 153, 114, 147 >>,
      << 132, 189, 113, 163, 135, 181, 139, 235, 83, 82, 112, 186, 53, 30, 123, 16,
         9, 63, 123, 2, 170, 93, 54, 180, 45, 86, 56, 98, 77, 235, 231, 113 >>,
      << 47, 76, 56, 127, 129, 201, 166, 40, 32, 20, 145, 249, 213, 74, 36, 73,
         151, 76, 134, 33, 232, 62, 120, 240, 134, 55, 90, 92, 199, 128, 229, 225 >>,
      << 157, 9, 242, 249, 35, 199, 248, 33, 215, 247, 218, 128, 235, 222, 69, 205,
         75, 251, 1, 99, 202, 77, 86, 110, 248, 73, 30, 80, 222, 241, 240, 134 >>,
      << 84, 44, 189, 142, 158, 75, 222, 207, 176, 235, 224, 46, 234, 147, 151, 3,
         183, 192, 48, 245, 125, 60, 37, 98, 37, 31, 209, 242, 63, 204, 21, 18 >>,
      << 196, 113, 155, 31, 203, 36, 60, 62, 28, 196, 163, 247, 249, 237, 126, 228,
         46, 131, 43, 161, 133, 161, 166, 14, 67, 50, 32, 70, 34, 183, 176, 44 >>,
      << 252, 167, 172, 137, 120, 34, 86, 138, 7, 105, 42, 145, 72, 195, 102, 28,
         118, 4, 233, 28, 237, 230, 156, 196, 184, 225, 86, 224, 161, 211, 63, 187 >>,
      << 132, 105, 61, 193, 86, 167, 17, 122, 65, 86, 45, 57, 198, 53, 147, 150,
         254, 152, 133, 114, 133, 227, 58, 139, 18, 58, 106, 101, 180, 117, 1, 112 >>,
      << 211, 6, 30, 176, 57, 1, 215, 18, 99, 27, 244, 84, 192, 199, 176, 5,
         120, 236, 145, 71, 216, 198, 50, 127, 0, 165, 52, 0, 59, 168, 10, 211 >>,
      << 42, 94, 135, 31, 215, 241, 3, 66, 16, 252, 4, 136, 105, 54, 240, 42,
         226, 252, 120, 177, 219, 177, 186, 17, 28, 202, 182, 22, 141, 190, 110, 108 >>,
      << 14, 253, 146, 160, 20, 241, 29, 180, 206, 34, 221, 223, 50, 103, 143, 61,
         200, 83, 52, 237, 253, 28, 185, 182, 107, 176, 228, 82, 190, 17, 157, 47 >>,
      << 140, 166, 224, 124, 240, 169, 157, 30, 127, 163, 197, 126, 12, 100, 52, 71,
         29, 192, 196, 75, 81, 99, 193, 123, 93, 66, 0, 63, 203, 85, 204, 19 >>,
      << 224, 134, 149, 65, 157, 73, 21, 218, 174, 19, 46, 154, 31, 245, 218, 169,
         250, 231, 173, 252, 33, 135, 70, 52, 157, 74, 147, 3, 29, 61, 221, 37 >>,
      << 197, 141, 230, 96, 240, 193, 171, 213, 108, 80, 89, 31, 109, 249, 60, 89,
         246, 79, 58, 1, 17, 5, 80, 137, 177, 63, 175, 231, 208, 245, 4, 19 >>,
      << 184, 191, 132, 139, 128, 171, 11, 244, 147, 53, 240, 72, 32, 96, 93, 52,
         183, 62, 120, 135, 54, 127, 188, 118, 3, 241, 33, 21, 64, 95, 128, 138 >>,
      << 249, 133, 118, 138, 77, 193, 250, 54, 60, 90, 237, 182, 190, 181, 192, 173,
         103, 147, 80, 72, 235, 144, 141, 129, 84, 210, 152, 214, 89, 82, 14, 141 >>,
      << 45, 189, 89, 63, 67, 145, 201, 170, 234, 240, 1, 212, 50, 101, 54, 123,
         173, 223, 98, 242, 239, 217, 18, 234, 7, 89, 83, 199, 213, 122, 173, 131 >>,
      << 109, 52, 199, 78, 156, 129, 6, 99, 116, 24, 106, 53, 201, 143, 140, 75,
         196, 198, 238, 110, 84, 25, 229, 31, 26, 191, 130, 54, 137, 130, 126, 101 >>,
      << 69, 37, 158, 83, 19, 48, 174, 250, 193, 137, 38, 92, 135, 198, 134, 246,
         37, 243, 242, 189, 49, 8, 85, 164, 38, 10, 200, 53, 23, 173, 37, 201 >>,
      << 98, 108, 39, 55, 113, 167, 120, 64, 61, 154, 251, 112, 36, 135, 60, 226,
         77, 140, 45, 79, 129, 46, 109, 187, 222, 35, 43, 32, 188, 125, 140, 5 >>,
      << 22, 225, 43, 136, 160, 162, 167, 77, 170, 25, 213, 229, 27, 11, 96, 184,
         134, 177, 131, 174, 227, 162, 22, 167, 238, 69, 177, 188, 171, 55, 5, 149 >>,
      << 169, 116, 194, 217, 26, 188, 213, 66, 165, 220, 47, 60, 231, 242, 162, 68,
         157, 211, 126, 111, 105, 255, 118, 16, 137, 213, 152, 120, 180, 147, 2, 169 >>,
      << 135, 209, 127, 30, 134, 102, 243, 207, 95, 171, 64, 246, 54, 38, 80, 24,
         58, 90, 29, 175, 197, 203, 43, 152, 189, 195, 88, 227, 113, 8, 219, 41 >>,
      << 17, 238, 25, 250, 73, 117, 133, 12, 235, 162, 98, 59, 30, 247, 1, 213,
         21, 209, 220, 253, 152, 255, 214, 139, 95, 85, 115, 147, 202, 223, 154, 192 >>,
      << 44, 32, 10, 112, 195, 203, 253, 179, 196, 226, 105, 5, 121, 219, 104, 211,
         157, 192, 21, 128, 209, 168, 82, 198, 174, 185, 68, 221, 147, 251, 23, 239 >>,
      << 203, 204, 206, 244, 60, 88, 205, 41, 149, 198, 185, 164, 17, 239, 218, 202,
         163, 16, 163, 94, 89, 94, 5, 150, 124, 105, 194, 19, 80, 12, 255, 76 >>,
      << 134, 52, 250, 77, 63, 243, 36, 40, 154, 242, 222, 46, 177, 253, 149, 210,
         42, 154, 72, 91, 104, 122, 56, 206, 116, 165, 43, 226, 20, 228, 113, 88 >>,
      << 155, 21, 237, 245, 7, 150, 214, 177, 50, 98, 58, 64, 235, 68, 135, 153,
         96, 187, 189, 251, 22, 144, 55, 63, 37, 179, 211, 62, 193, 112, 125, 144 >>,
      << 104, 119, 156, 110, 31, 209, 253, 207, 40, 65, 61, 160, 102, 248, 236, 28,
         236, 165, 248, 84, 193, 217, 30, 142, 176, 249, 17, 222, 141, 67, 19, 198 >>,
      << 8, 215, 117, 107, 90, 69, 244, 222, 27, 101, 28, 167, 60, 183, 114, 117,
         137, 220, 98, 221, 49, 171, 30, 28, 241, 60, 194, 83, 38, 249, 100, 29 >>,
      << 102, 36, 188, 154, 130, 115, 167, 136, 155, 2, 166, 240, 227, 188, 56, 155,
         138, 172, 115, 109, 207, 15, 184, 113, 218, 116, 47, 108, 13, 53, 128, 107 >>,
      << 183, 242, 87, 97, 231, 112, 221, 254, 86, 24, 116, 167, 112, 99, 27, 152,
         24, 107, 239, 169, 140, 4, 84, 10, 28, 26, 232, 74, 93, 255, 62, 5 >>,
      << 138, 168, 87, 113, 101, 250, 71, 227, 152, 29, 0, 155, 196, 33, 85, 96,
         218, 209, 159, 186, 51, 78, 230, 226, 12, 151, 132, 217, 146, 64, 53, 179 >>,
      << 116, 117, 251, 64, 247, 44, 199, 4, 19, 195, 195, 222, 14, 116, 250, 52,
         49, 230, 196, 93, 58, 191, 191, 58, 70, 27, 196, 161, 182, 196, 234, 242 >>,
      << 80, 74, 241, 23, 229, 229, 186, 103, 232, 28, 104, 61, 16, 15, 138, 252,
         208, 146, 19, 244, 168, 46, 74, 158, 93, 170, 245, 35, 107, 206, 173, 51 >>,
      << 9, 13, 122, 228, 228, 200, 196, 195, 7, 170, 35, 41, 140, 120, 6, 67,
         13, 179, 200, 188, 144, 15, 149, 245, 156, 153, 207, 29, 175, 88, 160, 62 >>,
      << 158, 205, 28, 66, 149, 10, 81, 238, 58, 84, 157, 102, 15, 31, 133, 25,
         207, 189, 173, 48, 45, 15, 149, 252, 198, 7, 55, 186, 156, 128, 116, 17 >>,
      << 179, 246, 246, 143, 2, 190, 178, 22, 130, 161, 5, 226, 230, 158, 137, 74,
         7, 203, 254, 112, 232, 254, 202, 206, 161, 195, 108, 123, 199, 117, 128, 159 >>,
      << 41, 230, 208, 198, 78, 125, 1, 48, 135, 55, 199, 111, 39, 137, 48, 191,
         122, 10, 91, 167, 181, 52, 197, 243, 93, 124, 140, 175, 136, 48, 40, 200 >>,
      << 44, 218, 122, 134, 235, 212, 188, 3, 94, 115, 5, 104, 25, 166, 94, 246,
         46, 252, 9, 233, 6, 2, 207, 225, 74, 235, 239, 248, 90, 88, 128, 13 >>,
      << 194, 247, 91, 29, 37, 15, 158, 178, 115, 79, 171, 17, 241, 209, 90, 37,
         35, 221, 12, 95, 28, 229, 44, 162, 135, 21, 11, 63, 255, 54, 35, 143 >>,
      << 94, 51, 240, 231, 83, 102, 211, 220, 241, 14, 181, 181, 46, 239, 181, 218,
         8, 141, 173, 22, 120, 131, 114, 2, 246, 14, 14, 110, 41, 113, 218, 68 >>,
      << 52, 61, 205, 170, 187, 167, 191, 207, 56, 184, 51, 136, 118, 58, 205, 176,
         107, 129, 118, 90, 94, 162, 131, 37, 213, 118, 231, 172, 188, 209, 228, 33 >>,
      << 90, 46, 227, 200, 21, 204, 74, 255, 126, 101, 45, 115, 205, 107, 29, 142,
         137, 27, 145, 47, 235, 224, 196, 179, 8, 121, 209, 13, 229, 107, 12, 16 >>,
      << 56, 105, 56, 241, 89, 244, 133, 84, 140, 149, 123, 87, 51, 153, 151, 254,
         67, 13, 1, 242, 122, 55, 71, 237, 246, 156, 11, 153, 92, 141, 18, 203 >>,
      << 105, 110, 178, 150, 185, 225, 227, 205, 23, 153, 196, 142, 156, 132, 109, 55,
         226, 229, 105, 148, 234, 221, 225, 171, 60, 239, 105, 26, 72, 244, 88, 25 >>,
      << 162, 99, 73, 149, 100, 102, 177, 241, 151, 142, 1, 250, 162, 106, 128, 167,
         77, 220, 6, 98, 230, 116, 193, 2, 179, 81, 9, 37, 59, 195, 142, 77 >>,
      << 7, 106, 130, 125, 140, 190, 153, 1, 29, 114, 104, 76, 252, 181, 229, 242,
         177, 123, 106, 148, 100, 60, 156, 78, 46, 240, 59, 43, 69, 183, 22, 125 >>,
      << 172, 61, 82, 110, 185, 31, 174, 24, 233, 189, 197, 118, 97, 60, 246, 66,
         121, 145, 158, 43, 148, 22, 128, 30, 0, 227, 100, 2, 8, 178, 195, 20 >>,
      << 21, 249, 178, 236, 180, 93, 64, 123, 71, 66, 40, 220, 41, 50, 216, 75,
         211, 18, 9, 206, 174, 58, 73, 196, 62, 246, 126, 172, 119, 100, 58, 19 >>,
      << 77, 80, 72, 215, 62, 43, 157, 40, 3, 130, 235, 248, 169, 18, 208, 12,
         254, 11, 100, 241, 247, 8, 31, 202, 227, 70, 188, 141, 118, 88, 162, 32 >>,
      << 199, 161, 255, 68, 65, 232, 174, 58, 79, 151, 192, 130, 128, 152, 205, 101,
         216, 221, 194, 13, 238, 170, 64, 10, 169, 160, 14, 193, 87, 67, 133, 73 >>,
      << 36, 226, 97, 218, 250, 187, 23, 138, 43, 90, 140, 39, 112, 35, 150, 76,
         223, 49, 47, 204, 69, 211, 92, 124, 239, 64, 214, 104, 199, 148, 68, 128 >>,
      << 107, 209, 88, 195, 173, 107, 126, 220, 102, 227, 81, 37, 149, 206, 34, 185,
         127, 58, 164, 68, 11, 173, 97, 81, 93, 109, 180, 11, 207, 202, 200, 100 >>,
      << 142, 24, 95, 111, 134, 10, 133, 108, 197, 211, 206, 115, 229, 41, 119, 58,
         161, 203, 148, 47, 6, 112, 118, 179, 9, 233, 32, 81, 160, 10, 168, 130 >>,
      << 95, 5, 59, 122, 74, 72, 188, 149, 181, 135, 252, 1, 90, 167, 48, 164,
         72, 242, 217, 40, 231, 143, 80, 212, 121, 192, 48, 253, 222, 139, 203, 146 >>,
      << 179, 53, 30, 88, 101, 255, 66, 23, 67, 83, 7, 166, 163, 237, 159, 183,
         173, 159, 62, 177, 199, 22, 224, 119, 70, 158, 171, 125, 86, 207, 35, 12 >>,
      << 82, 132, 111, 230, 131, 251, 221, 206, 210, 188, 104, 69, 51, 91, 200, 164,
         93, 121, 158, 182, 73, 123, 23, 91, 34, 0, 132, 243, 254, 133, 159, 106 >>,
      << 79, 116, 31, 103, 247, 189, 148, 98, 103, 24, 92, 215, 205, 60, 211, 196,
         79, 244, 98, 67, 144, 69, 177, 15, 0, 168, 195, 222, 73, 152, 97, 32 >>,
      << 19, 97, 22, 81, 212, 60, 83, 109, 253, 100, 75, 226, 44, 246, 182, 87,
         50, 100, 188, 92, 211, 235, 20, 197, 225, 203, 72, 55, 120, 70, 127, 224 >>,
      << 233, 14, 213, 118, 194, 52, 140, 212, 235, 162, 194, 7, 247, 230, 213, 171,
         144, 122, 139, 140, 71, 25, 0, 106, 144, 33, 234, 136, 74, 210, 229, 156 >>,
      << 246, 130, 92, 166, 255, 40, 96, 92, 92, 164, 96, 148, 149, 202, 170, 160,
         122, 58, 158, 255, 234, 5, 132, 184, 134, 23, 151, 128, 65, 3, 40, 52 >>,
      << 205, 78, 252, 100, 14, 5, 1, 139, 193, 17, 254, 24, 150, 149, 161, 18,
         163, 200, 42, 11, 192, 248, 81, 42, 171, 140, 3, 229, 92, 88, 37, 212 >>,
      << 42, 190, 217, 114, 59, 172, 219, 122, 107, 174, 181, 63, 143, 7, 0, 66,
         147, 216, 34, 225, 195, 16, 166, 48, 159, 119, 107, 177, 184, 84, 220, 70 >>,
      << 217, 81, 128, 185, 123, 114, 144, 172, 3, 84, 183, 66, 59, 95, 50, 58,
         129, 171, 119, 86, 135, 213, 91, 77, 195, 168, 37, 57, 63, 81, 40, 185 >>,
      << 104, 218, 153, 192, 186, 74, 181, 225, 238, 226, 148, 211, 210, 153, 239, 243,
         14, 110, 246, 83, 2, 192, 195, 27, 146, 41, 34, 253, 182, 183, 28, 70 >>,
      << 242, 132, 255, 95, 7, 141, 85, 214, 16, 97, 153, 54, 62, 145, 202, 164,
         181, 121, 83, 124, 26, 163, 75, 192, 146, 173, 171, 216, 0, 68, 13, 122 >>,
      << 158, 37, 152, 89, 56, 69, 53, 141, 219, 145, 235, 51, 68, 125, 59, 3,
         131, 253, 119, 26, 207, 27, 171, 73, 24, 170, 215, 51, 239, 8, 13, 246 >>,
      << 143, 48, 74, 15, 243, 136, 254, 108, 110, 109, 166, 42, 164, 31, 2, 78,
         100, 203, 143, 69, 250, 83, 135, 246, 174, 164, 149, 103, 142, 2, 31, 40 >>,
      << 32, 0, 192, 98, 136, 4, 139, 133, 58, 195, 90, 65, 199, 223, 50, 33,
         179, 140, 203, 8, 148, 18, 171, 41, 162, 32, 147, 198, 64, 183, 163, 142 >>,
      << 237, 66, 122, 150, 245, 141, 95, 125, 123, 116, 80, 170, 24, 144, 13, 67,
         102, 42, 237, 98, 45, 16, 172, 29, 15, 130, 30, 134, 146, 31, 10, 51 >>,
      << 75, 191, 196, 226, 237, 208, 196, 133, 126, 31, 30, 121, 169, 208, 43, 145,
         24, 34, 136, 237, 207, 79, 50, 46, 109, 32, 142, 204, 239, 147, 103, 253 >>,
      << 1, 26, 3, 59, 7, 154, 142, 22, 75, 11, 242, 174, 199, 81, 18, 239,
         246, 58, 133, 114, 213, 138, 41, 16, 58, 232, 55, 177, 154, 14, 105, 55 >>,
      << 108, 71, 32, 4, 186, 221, 118, 218, 149, 163, 2, 165, 114, 8, 10, 249,
         92, 87, 39, 23, 173, 127, 17, 182, 154, 231, 105, 62, 255, 103, 65, 146 >>,
      << 236, 34, 238, 117, 59, 82, 98, 228, 225, 71, 45, 254, 74, 191, 168, 23,
         46, 31, 217, 8, 173, 243, 67, 92, 64, 178, 189, 163, 216, 169, 219, 139 >>,
      << 250, 196, 185, 98, 255, 7, 20, 148, 71, 161, 64, 173, 86, 67, 148, 0,
         234, 217, 163, 180, 127, 203, 104, 47, 91, 157, 152, 251, 13, 31, 133, 110 >>,
      << 97, 100, 180, 41, 198, 187, 164, 255, 18, 57, 76, 35, 157, 143, 189, 154,
         188, 9, 134, 50, 193, 77, 128, 15, 111, 33, 10, 71, 87, 16, 101, 120 >>,
      << 25, 253, 39, 178, 72, 43, 138, 231, 40, 9, 245, 84, 168, 165, 105, 123,
         75, 246, 181, 38, 212, 180, 59, 235, 251, 86, 81, 239, 154, 67, 194, 142 >>,
      << 230, 197, 120, 192, 152, 37, 151, 139, 22, 251, 150, 74, 251, 21, 54, 132,
         234, 51, 193, 145, 175, 228, 3, 136, 221, 82, 214, 94, 130, 73, 216, 170 >>,
      << 191, 31, 4, 141, 143, 9, 87, 207, 75, 10, 210, 206, 6, 179, 80, 67,
         114, 106, 28, 130, 81, 64, 150, 214, 214, 119, 6, 246, 19, 82, 169, 219 >>,
      << 110, 42, 56, 79, 208, 193, 82, 190, 26, 133, 170, 126, 21, 143, 162, 157,
         137, 126, 255, 187, 162, 170, 75, 250, 168, 175, 119, 249, 172, 227, 187, 158 >>,
      << 199, 159, 148, 243, 140, 153, 250, 227, 25, 211, 224, 176, 211, 125, 164, 244,
         43, 63, 171, 221, 242, 234, 95, 52, 93, 248, 213, 55, 213, 64, 217, 50 >>,
      << 191, 73, 70, 122, 19, 160, 167, 156, 139, 93, 87, 158, 21, 44, 18, 25,
         173, 207, 126, 132, 159, 77, 177, 154, 201, 237, 49, 181, 43, 33, 6, 237 >>,
      << 98, 242, 60, 196, 207, 113, 85, 80, 169, 39, 250, 151, 57, 143, 201, 132,
         174, 164, 189, 101, 244, 241, 241, 115, 201, 111, 188, 222, 61, 68, 62, 187 >>,
      << 199, 59, 64, 82, 191, 156, 68, 174, 22, 183, 34, 186, 178, 214, 149, 250,
         35, 145, 251, 179, 222, 240, 36, 45, 181, 83, 72, 22, 176, 178, 17, 46 >>,
      << 98, 11, 4, 119, 101, 75, 246, 65, 179, 231, 18, 90, 237, 12, 157, 2,
         147, 172, 24, 61, 250, 7, 10, 72, 32, 135, 202, 52, 91, 137, 156, 211 >>,
      << 175, 120, 232, 136, 173, 170, 37, 86, 108, 239, 247, 92, 141, 117, 66, 221,
         162, 0, 12, 182, 49, 207, 209, 31, 210, 138, 161, 120, 7, 129, 145, 214 >>,
      << 89, 204, 167, 198, 4, 142, 178, 96, 201, 233, 124, 11, 226, 247, 140, 179,
         148, 78, 17, 82, 242, 64, 169, 173, 230, 98, 198, 159, 52, 27, 0, 137 >>,
      << 116, 169, 252, 199, 147, 229, 85, 136, 127, 167, 61, 198, 191, 94, 162, 231,
         150, 154, 182, 196, 71, 99, 28, 4, 202, 121, 52, 69, 105, 45, 149, 216 >>,
      << 6, 43, 91, 20, 2, 58, 150, 145, 253, 113, 112, 58, 21, 53, 183, 97,
         231, 141, 117, 216, 217, 2, 46, 160, 189, 35, 25, 198, 187, 218, 168, 63 >>,
      << 13, 211, 56, 189, 199, 198, 12, 221, 154, 161, 230, 10, 247, 69, 252, 38,
         5, 109, 72, 205, 160, 188, 239, 137, 201, 195, 203, 148, 234, 56, 216, 10 >>,
      << 144, 177, 183, 69, 112, 167, 58, 27, 162, 31, 187, 197, 49, 98, 209, 193,
         20, 139, 247, 113, 106, 112, 128, 65, 68, 6, 250, 144, 55, 236, 108, 48 >>,
      << 21, 42, 18, 52, 134, 43, 69, 248, 137, 191, 199, 118, 243, 251, 56, 173,
         23, 158, 172, 89, 129, 28, 62, 250, 78, 8, 142, 227, 250, 242, 139, 247 >>,
      << 241, 195, 240, 35, 7, 237, 157, 242, 162, 25, 186, 182, 112, 227, 161, 31,
         50, 185, 159, 17, 12, 170, 112, 98, 99, 148, 114, 189, 209, 9, 160, 163 >>,
      << 238, 35, 63, 68, 32, 78, 72, 70, 176, 87, 101, 95, 203, 98, 118, 215,
         186, 99, 42, 104, 72, 125, 79, 210, 103, 114, 219, 213, 182, 177, 29, 173 >>,
      << 53, 87, 214, 103, 94, 15, 73, 35, 102, 229, 116, 105, 172, 145, 89, 11,
         32, 134, 60, 46, 227, 23, 17, 138, 188, 236, 65, 83, 50, 208, 54, 1 >>,
      << 212, 81, 153, 181, 62, 7, 23, 201, 112, 91, 20, 148, 74, 70, 224, 135,
         62, 97, 71, 109, 24, 27, 30, 203, 161, 112, 215, 18, 114, 21, 77, 97 >>,
      << 188, 162, 195, 84, 65, 203, 93, 105, 200, 120, 21, 229, 187, 245, 253, 148,
         72, 186, 112, 113, 132, 51, 69, 143, 188, 183, 11, 244, 71, 213, 134, 180 >>,
      << 213, 200, 202, 115, 233, 21, 15, 131, 184, 88, 86, 230, 170, 90, 243, 47,
         49, 203, 140, 127, 145, 71, 114, 34, 52, 0, 48, 159, 209, 73, 197, 66 >> >> )
  @@
  (   << 121, 190, 102, 126, 249, 220, 187, 172, 85, 160, 98, 149, 206, 135, 11, 7,
         2, 155, 252, 219, 45, 206, 40, 217, 89, 242, 129, 91, 22, 248, 23, 152,
         72, 58, 218, 119, 38, 163, 196, 101, 93, 164, 251, 252, 14, 17, 8, 168,
         253, 23, 180, 72, 166, 133, 84, 25, 156, 71, 208, 143, 251, 16, 212 >>
   :> <<
      << 187, 170, 70, 95, 124, 100, 72, 126, 46, 138, 202, 217, 102, 34, 192, 34,
         131, 205, 81, 245, 13, 129, 56, 206, 96, 130, 86, 197, 159, 158, 161, 40 >>,
      << 77, 131, 183, 16, 4, 65, 17, 79, 162, 141, 64, 156, 249, 135, 87, 121,
         254, 223, 104, 49, 113, 188, 41, 70, 222, 110, 115, 24, 25, 170, 12, 130 >>,
      << 94, 55, 218, 72, 217, 34, 66, 49, 134, 6, 176, 24, 187, 195, 205, 228,
         86, 180, 243, 90, 16, 51, 246, 251, 89, 147, 121, 214, 85, 18, 119, 53 >>,
      << 144, 170, 240, 5, 22, 88, 167, 33, 118, 107, 185, 17, 78, 22, 238, 0,
         156, 123, 95, 140, 181, 191, 0, 207, 219, 217, 105, 218, 72, 217, 213, 111 >>,
      << 74, 194, 42, 100, 136, 109, 138, 212, 133, 207, 137, 236, 144, 52, 74, 229,
         185, 249, 184, 146, 110, 58, 235, 34, 198, 19, 129, 87, 176, 9, 4, 197 >>,
      << 14, 159, 219, 163, 156, 173, 59, 97, 159, 252, 101, 197, 52, 119, 254, 240,
         127, 73, 90, 185, 169, 51, 186, 11, 251, 225, 174, 72, 97, 20, 3, 207 >>,
      << 220, 77, 168, 43, 234, 177, 73, 157, 247, 72, 135, 102, 248, 220, 211, 76,
         109, 13, 252, 120, 2, 113, 158, 214, 238, 245, 185, 52, 126, 69, 75, 147 >>,
      << 249, 174, 179, 105, 116, 226, 232, 0, 158, 38, 97, 20, 23, 6, 228, 200,
         145, 169, 161, 123, 44, 89, 10, 250, 85, 175, 3, 216, 174, 214, 97, 233 >>,
      << 20, 0, 209, 130, 90, 134, 43, 90, 127, 191, 41, 191, 100, 172, 72, 108,
         220, 16, 41, 48, 169, 252, 243, 47, 250, 75, 114, 55, 16, 221, 179, 216 >>,
      << 212, 18, 59, 70, 30, 44, 81, 196, 254, 19, 73, 123, 26, 247, 49, 26,
         55, 74, 48, 66, 231, 176, 58, 200, 47, 190, 146, 89, 22, 190, 204, 11 >>,
      << 15, 145, 133, 149, 15, 165, 253, 130, 97, 222, 51, 166, 234, 46, 155, 141,
         89, 171, 62, 188, 5, 10, 34, 183, 171, 94, 143, 221, 2, 37, 228, 253 >>,
      << 65, 168, 86, 91, 143, 134, 170, 184, 86, 181, 218, 74, 201, 25, 140, 236,
         229, 229, 81, 51, 91, 191, 122, 149, 27, 80, 100, 144, 200, 102, 69, 145 >>,
      << 77, 188, 160, 78, 114, 143, 150, 233, 21, 168, 223, 206, 137, 246, 108, 167,
         26, 113, 184, 206, 217, 101, 45, 200, 35, 50, 246, 151, 13, 107, 235, 78 >>,
      << 192, 129, 38, 90, 175, 12, 14, 187, 231, 92, 58, 107, 72, 28, 16, 31,
         218, 188, 207, 125, 234, 225, 174, 105, 24, 127, 173, 122, 188, 184, 36, 92 >>,
      << 86, 78, 198, 48, 184, 214, 50, 205, 75, 114, 120, 172, 156, 104, 38, 254,
         127, 218, 149, 3, 37, 109, 39, 156, 22, 178, 24, 228, 152, 226, 53, 29 >>,
      << 97, 123, 226, 138, 241, 13, 70, 87, 103, 234, 11, 31, 103, 189, 78, 101,
         5, 228, 214, 178, 99, 102, 50, 110, 149, 218, 100, 125, 15, 83, 175, 130 >>,
      << 30, 132, 28, 202, 106, 110, 55, 229, 28, 86, 37, 10, 233, 68, 235, 46,
         52, 201, 95, 70, 115, 191, 71, 217, 136, 0, 172, 88, 196, 246, 43, 154 >>,
      << 73, 6, 211, 215, 151, 73, 139, 109, 29, 22, 202, 168, 145, 27, 98, 38,
         183, 161, 86, 238, 62, 254, 107, 167, 6, 213, 224, 86, 56, 93, 29, 159 >>,
      << 177, 216, 236, 255, 221, 211, 227, 163, 57, 254, 75, 118, 53, 249, 143, 106,
         110, 11, 208, 188, 84, 129, 191, 115, 95, 71, 179, 112, 220, 190, 190, 59 >>,
      << 65, 230, 189, 77, 255, 13, 13, 238, 26, 205, 240, 192, 156, 88, 4, 177,
         39, 162, 69, 13, 40, 57, 240, 84, 39, 170, 230, 153, 157, 115, 180, 16 >>,
      << 224, 189, 236, 61, 157, 184, 27, 218, 201, 148, 230, 91, 49, 129, 187, 75,
         232, 81, 32, 206, 6, 46, 247, 23, 23, 2, 100, 120, 55, 97, 69, 240 >>,
      << 66, 146, 69, 86, 104, 218, 184, 29, 222, 228, 180, 73, 20, 50, 255, 115,
         190, 5, 55, 67, 172, 222, 8, 58, 169, 77, 34, 23, 122, 8, 165, 52 >>,
      << 17, 253, 248, 165, 23, 132, 145, 202, 96, 229, 186, 106, 130, 165, 59, 55,
         203, 55, 47, 162, 150, 114, 97, 154, 48, 195, 180, 21, 242, 55, 150, 75 >>,
      << 104, 200, 242, 189, 57, 251, 65, 50, 14, 218, 166, 212, 76, 109, 152, 18,
         45, 189, 249, 225, 131, 128, 104, 6, 91, 130, 177, 59, 151, 1, 231, 31 >>,
      << 209, 175, 186, 194, 79, 96, 176, 170, 78, 87, 17, 206, 232, 13, 115, 94,
         90, 27, 112, 210, 99, 50, 93, 244, 192, 185, 44, 250, 223, 236, 7, 187 >>,
      << 117, 230, 222, 59, 119, 130, 125, 8, 0, 235, 185, 239, 158, 83, 2, 63,
         55, 252, 130, 195, 104, 59, 131, 80, 60, 32, 156, 105, 64, 17, 188, 161 >>,
      << 247, 70, 194, 121, 173, 1, 152, 19, 70, 86, 148, 85, 12, 156, 174, 212,
         243, 97, 133, 144, 58, 139, 32, 157, 124, 76, 131, 160, 157, 11, 56, 167 >>,
      << 111, 45, 155, 21, 228, 222, 202, 130, 228, 111, 18, 221, 60, 66, 60, 116,
         165, 41, 103, 232, 54, 59, 11, 20, 47, 187, 228, 169, 24, 123, 156, 132 >>,
      << 34, 193, 37, 48, 43, 80, 211, 1, 49, 157, 178, 205, 11, 5, 193, 200,
         221, 8, 141, 219, 74, 34, 89, 213, 44, 70, 185, 185, 143, 186, 191, 124 >>,
      << 65, 255, 59, 229, 185, 205, 37, 251, 131, 54, 166, 215, 97, 138, 215, 118,
         98, 15, 41, 157, 152, 60, 19, 119, 3, 148, 111, 168, 210, 191, 172, 150 >>,
      << 8, 224, 75, 249, 179, 83, 108, 100, 225, 95, 244, 65, 208, 49, 12, 31,
         145, 203, 208, 100, 28, 170, 9, 118, 8, 38, 246, 143, 156, 242, 86, 205 >>,
      << 153, 216, 113, 212, 227, 101, 220, 120, 165, 173, 175, 179, 197, 25, 64, 152,
         18, 192, 127, 65, 244, 251, 63, 114, 211, 183, 224, 157, 60, 223, 43, 73 >>,
      << 200, 163, 188, 78, 128, 160, 27, 80, 86, 152, 143, 30, 80, 162, 5, 74,
         131, 141, 139, 216, 54, 158, 104, 78, 194, 138, 34, 44, 143, 253, 71, 143 >>,
      << 170, 61, 70, 164, 5, 204, 85, 12, 236, 11, 111, 109, 92, 43, 69, 124,
         199, 137, 190, 202, 100, 60, 215, 147, 0, 129, 99, 185, 10, 46, 232, 2 >>,
      << 255, 5, 135, 162, 147, 175, 179, 108, 199, 3, 249, 218, 71, 101, 115, 105,
         53, 49, 234, 16, 240, 154, 98, 171, 200, 181, 85, 230, 100, 194, 252, 3 >>,
      << 160, 202, 144, 253, 136, 220, 98, 54, 114, 166, 141, 73, 177, 51, 174, 209,
         216, 164, 229, 91, 45, 124, 86, 250, 152, 245, 131, 184, 37, 140, 95, 83 >>,
      << 236, 0, 108, 138, 238, 31, 59, 248, 11, 236, 85, 224, 192, 216, 247, 145,
         9, 4, 148, 167, 171, 238, 15, 35, 253, 67, 231, 157, 99, 164, 247, 198 >>,
      << 68, 223, 187, 216, 114, 152, 180, 33, 214, 242, 191, 71, 23, 183, 15, 248,
         98, 18, 110, 51, 151, 37, 37, 120, 234, 67, 235, 179, 129, 150, 114, 80 >>,
      << 85, 22, 130, 232, 156, 105, 203, 234, 240, 237, 77, 229, 89, 194, 29, 110,
         58, 27, 23, 106, 108, 219, 129, 141, 61, 185, 95, 210, 71, 156, 194, 78 >>,
      << 253, 248, 76, 77, 18, 193, 146, 140, 154, 176, 204, 251, 164, 107, 83, 18,
         51, 188, 50, 141, 52, 56, 137, 138, 195, 23, 35, 85, 102, 107, 158, 133 >>,
      << 137, 36, 155, 208, 116, 148, 167, 155, 11, 237, 247, 228, 15, 209, 0, 47,
         148, 152, 31, 11, 202, 187, 29, 132, 118, 207, 68, 96, 13, 110, 94, 44 >>,
      << 150, 179, 214, 36, 87, 25, 55, 248, 144, 51, 84, 76, 9, 139, 120, 64,
         187, 166, 86, 144, 97, 209, 49, 176, 137, 114, 69, 255, 48, 124, 199, 177 >>,
      << 253, 243, 24, 104, 138, 157, 2, 49, 83, 232, 221, 164, 112, 34, 154, 216,
         239, 113, 229, 160, 23, 69, 122, 158, 243, 214, 51, 98, 11, 125, 68, 97 >>,
      << 60, 175, 74, 157, 107, 251, 154, 99, 147, 64, 39, 32, 92, 49, 193, 61,
         224, 52, 214, 223, 230, 227, 163, 76, 39, 104, 213, 44, 181, 163, 14, 145 >>,
      << 68, 32, 21, 246, 4, 119, 74, 3, 221, 226, 92, 23, 29, 75, 61, 221,
         155, 37, 77, 69, 118, 214, 139, 106, 39, 148, 133, 133, 225, 132, 229, 192 >>,
      << 232, 71, 90, 21, 42, 33, 30, 230, 218, 244, 106, 21, 98, 169, 90, 229,
         243, 71, 30, 40, 30, 110, 110, 129, 94, 209, 2, 251, 20, 92, 57, 136 >>,
      << 6, 197, 30, 184, 61, 91, 105, 21, 30, 195, 173, 114, 22, 196, 63, 4,
         44, 55, 248, 90, 71, 99, 47, 202, 180, 211, 252, 241, 23, 73, 114, 20 >>,
      << 137, 40, 123, 73, 201, 47, 118, 237, 24, 98, 110, 227, 57, 162, 92, 62,
         22, 76, 192, 202, 121, 225, 36, 220, 253, 118, 22, 222, 93, 50, 132, 86 >>,
      << 45, 121, 0, 136, 2, 233, 183, 254, 208, 127, 106, 136, 75, 214, 189, 64,
         184, 145, 150, 208, 58, 53, 204, 168, 132, 12, 179, 71, 203, 30, 126, 236 >>,
      << 49, 100, 96, 34, 138, 78, 83, 233, 182, 53, 62, 252, 204, 170, 198, 112,
         186, 209, 198, 212, 159, 58, 159, 133, 4, 168, 127, 192, 246, 69, 31, 123 >>,
      << 49, 7, 30, 154, 244, 216, 64, 144, 240, 123, 91, 19, 88, 133, 183, 145,
         185, 119, 22, 212, 38, 154, 253, 15, 60, 211, 219, 210, 47, 8, 105, 61 >>,
      << 188, 13, 254, 31, 234, 216, 77, 45, 34, 49, 187, 102, 131, 107, 86, 209,
         30, 55, 212, 71, 177, 26, 229, 132, 211, 163, 250, 172, 239, 88, 194, 47 >>,
      << 140, 186, 172, 62, 120, 83, 23, 162, 140, 226, 59, 226, 230, 150, 186, 102,
         50, 103, 130, 148, 46, 136, 237, 201, 40, 106, 47, 93, 134, 17, 247, 251 >>,
      << 151, 149, 138, 149, 182, 165, 43, 140, 197, 98, 191, 222, 236, 14, 143, 135,
         103, 192, 153, 229, 39, 203, 235, 182, 133, 218, 151, 194, 28, 205, 43, 23 >>,
      << 168, 186, 141, 128, 35, 217, 211, 207, 175, 10, 111, 233, 123, 87, 145, 44,
         239, 21, 212, 102, 101, 18, 136, 51, 192, 151, 115, 98, 142, 163, 185, 116 >>,
      << 69, 66, 225, 18, 138, 184, 2, 72, 119, 42, 114, 19, 99, 98, 88, 54,
         146, 253, 13, 122, 94, 65, 24, 74, 201, 157, 95, 41, 28, 75, 21, 226 >>,
      << 25, 218, 138, 96, 239, 224, 187, 62, 7, 101, 151, 89, 196, 14, 51, 164,
         203, 50, 205, 122, 85, 214, 52, 39, 35, 180, 32, 103, 118, 41, 205, 107 >>,
      << 167, 57, 132, 33, 174, 51, 232, 38, 130, 186, 250, 85, 122, 28, 132, 198,
         160, 88, 188, 165, 99, 144, 59, 242, 169, 237, 153, 54, 90, 122, 134, 79 >>,
      << 70, 145, 12, 112, 254, 31, 48, 47, 125, 240, 185, 226, 50, 228, 189, 190,
         104, 46, 216, 7, 66, 126, 125, 22, 159, 253, 94, 52, 137, 163, 242, 39 >>,
      << 214, 255, 146, 147, 30, 132, 136, 191, 20, 29, 203, 101, 73, 16, 82, 235,
         155, 59, 5, 34, 26, 85, 239, 248, 208, 194, 191, 102, 76, 10, 85, 249 >>,
      << 211, 200, 72, 207, 1, 237, 152, 29, 3, 34, 127, 118, 8, 41, 139, 187,
         179, 122, 62, 240, 231, 95, 138, 175, 76, 151, 27, 65, 200, 15, 110, 189 >>,
      << 141, 94, 24, 1, 92, 161, 204, 8, 45, 103, 197, 105, 238, 43, 149, 36,
         39, 252, 171, 240, 231, 149, 186, 84, 145, 15, 198, 71, 60, 101, 74, 80 >>,
      << 39, 86, 47, 127, 138, 181, 185, 201, 147, 236, 31, 165, 148, 89, 113, 51,
         184, 97, 74, 53, 142, 159, 38, 250, 36, 121, 1, 29, 151, 158, 177, 161 >>,
      << 182, 117, 75, 60, 36, 80, 114, 246, 24, 166, 43, 98, 93, 204, 109, 135,
         144, 216, 38, 40, 132, 241, 98, 148, 172, 233, 191, 101, 213, 198, 210, 166 >>,
      << 206, 193, 241, 6, 115, 173, 0, 14, 106, 214, 213, 224, 143, 211, 113, 125,
         36, 187, 186, 137, 238, 87, 86, 226, 247, 152, 84, 68, 218, 237, 147, 238 >>,
      << 227, 178, 98, 122, 79, 64, 166, 68, 50, 151, 185, 255, 36, 115, 8, 73,
         127, 8, 132, 75, 225, 102, 52, 190, 238, 22, 195, 215, 108, 109, 223, 226 >>,
      << 38, 23, 85, 136, 48, 198, 105, 20, 192, 158, 67, 229, 20, 185, 210, 152,
         220, 237, 61, 49, 49, 111, 83, 178, 165, 190, 193, 218, 89, 115, 83, 185 >>,
      << 204, 243, 204, 150, 125, 190, 209, 84, 61, 211, 126, 75, 167, 134, 5, 85,
         125, 76, 55, 74, 222, 111, 195, 160, 168, 56, 13, 13, 78, 248, 121, 162 >>,
      << 115, 99, 175, 5, 19, 5, 150, 156, 249, 246, 92, 122, 2, 13, 139, 136,
         30, 49, 71, 128, 185, 45, 29, 249, 246, 96, 254, 22, 49, 139, 140, 139 >>,
      << 234, 239, 8, 100, 216, 229, 140, 131, 42, 177, 131, 205, 71, 186, 192, 36,
         45, 195, 212, 144, 11, 234, 46, 8, 240, 98, 176, 15, 127, 214, 152, 132 >>,
      << 63, 126, 161, 212, 207, 45, 125, 243, 67, 101, 110, 104, 114, 52, 218, 74,
         145, 74, 101, 116, 38, 145, 44, 82, 184, 237, 111, 225, 197, 28, 214, 189 >>,
      << 210, 208, 217, 192, 218, 151, 178, 130, 190, 185, 47, 235, 222, 18, 61, 204,
         86, 233, 119, 102, 37, 195, 47, 190, 23, 255, 67, 179, 229, 230, 152, 44 >>,
      << 241, 1, 42, 118, 216, 127, 153, 91, 128, 42, 253, 163, 185, 38, 248, 112,
         188, 81, 254, 84, 170, 41, 83, 76, 74, 221, 162, 79, 44, 182, 49, 112 >>,
      << 197, 250, 174, 118, 146, 224, 218, 41, 157, 140, 123, 193, 90, 252, 213, 150,
         189, 102, 29, 186, 247, 158, 36, 41, 18, 160, 79, 95, 158, 218, 45, 30 >>,
      << 71, 84, 8, 216, 48, 98, 249, 5, 141, 96, 104, 54, 253, 54, 31, 104,
         103, 220, 126, 176, 61, 224, 123, 175, 251, 255, 129, 230, 24, 217, 90, 84 >>,
      << 56, 7, 119, 189, 187, 11, 88, 37, 163, 203, 86, 128, 73, 240, 164, 171,
         91, 62, 235, 60, 65, 44, 31, 202, 135, 166, 106, 35, 173, 100, 75, 83 >>,
      << 88, 73, 19, 43, 217, 136, 78, 46, 164, 123, 97, 231, 241, 79, 146, 107,
         103, 165, 6, 81, 170, 210, 44, 86, 25, 12, 155, 232, 107, 3, 206, 124 >>,
      << 124, 114, 170, 74, 88, 46, 173, 173, 172, 11, 147, 82, 114, 178, 0, 233,
         81, 105, 93, 41, 87, 164, 162, 60, 210, 171, 86, 123, 72, 101, 183, 129 >>,
      << 236, 44, 27, 54, 18, 191, 52, 228, 118, 205, 233, 244, 172, 57, 7, 190,
         189, 176, 223, 151, 92, 217, 252, 219, 99, 120, 124, 159, 16, 174, 16, 7 >>,
      << 118, 169, 73, 99, 188, 127, 249, 205, 133, 30, 230, 234, 94, 97, 146, 84,
         139, 68, 52, 121, 35, 130, 19, 173, 245, 225, 5, 76, 115, 151, 209, 107 >>,
      << 197, 109, 37, 232, 249, 81, 160, 252, 50, 92, 134, 87, 238, 90, 8, 134,
         241, 82, 149, 142, 188, 232, 97, 232, 174, 95, 229, 238, 105, 230, 152, 91 >>,
      << 209, 93, 8, 114, 251, 228, 17, 41, 248, 94, 252, 27, 51, 240, 27, 83,
         130, 109, 218, 220, 21, 38, 29, 92, 1, 214, 230, 29, 194, 79, 161, 81 >>,
      << 153, 26, 99, 244, 224, 29, 206, 184, 132, 205, 10, 168, 0, 201, 190, 255,
         232, 123, 235, 238, 72, 247, 115, 207, 61, 11, 5, 122, 79, 93, 33, 197 >>,
      << 134, 207, 9, 207, 58, 200, 58, 132, 59, 230, 128, 26, 214, 116, 139, 167,
         52, 146, 61, 24, 147, 28, 127, 180, 150, 64, 49, 152, 80, 197, 12, 167 >>,
      << 88, 5, 73, 208, 253, 150, 201, 244, 93, 161, 106, 28, 155, 82, 22, 250,
         49, 7, 153, 116, 4, 80, 24, 71, 120, 5, 69, 8, 85, 182, 46, 110 >>,
      << 162, 23, 42, 5, 27, 149, 68, 163, 62, 229, 162, 46, 166, 63, 6, 66,
         218, 5, 207, 126, 139, 104, 131, 79, 155, 40, 237, 187, 7, 98, 138, 0 >>,
      << 120, 83, 226, 144, 236, 112, 27, 243, 89, 252, 15, 221, 189, 87, 59, 142,
         116, 167, 89, 212, 70, 1, 77, 31, 64, 115, 18, 245, 120, 3, 127, 212 >>,
      << 248, 114, 19, 95, 70, 105, 83, 222, 240, 60, 177, 146, 71, 74, 105, 231,
         147, 248, 113, 197, 147, 162, 9, 251, 227, 62, 135, 129, 155, 19, 181, 178 >>,
      << 219, 153, 157, 113, 205, 104, 202, 51, 71, 164, 2, 113, 174, 118, 136, 227,
         20, 204, 45, 132, 51, 104, 171, 3, 200, 191, 60, 171, 154, 88, 233, 155 >>,
      << 26, 220, 152, 123, 193, 127, 90, 181, 51, 234, 118, 129, 41, 85, 21, 152,
         6, 65, 38, 162, 213, 146, 238, 90, 61, 82, 97, 104, 63, 125, 139, 217 >>,
      << 179, 72, 59, 16, 183, 250, 92, 134, 82, 17, 82, 177, 61, 94, 107, 74,
         175, 113, 93, 231, 255, 170, 91, 10, 160, 118, 117, 42, 173, 38, 236, 40 >>,
      << 218, 72, 39, 221, 218, 81, 166, 152, 178, 237, 202, 7, 11, 167, 80, 0,
         91, 201, 47, 176, 189, 88, 82, 79, 106, 143, 141, 80, 251, 132, 44, 12 >>,
      << 186, 228, 108, 216, 124, 58, 163, 14, 33, 225, 150, 79, 14, 162, 129, 212,
         182, 118, 161, 73, 33, 136, 207, 97, 255, 183, 1, 143, 62, 0, 55, 198 >>,
      << 89, 6, 8, 105, 130, 82, 150, 109, 56, 81, 46, 135, 237, 45, 157, 210,
         193, 9, 9, 202, 218, 184, 104, 20, 245, 207, 142, 116, 19, 210, 154, 125 >>,
      << 228, 224, 210, 40, 42, 175, 62, 228, 151, 135, 10, 31, 0, 222, 115, 241,
         241, 226, 96, 18, 80, 54, 131, 150, 6, 114, 176, 180, 224, 65, 83, 242 >>,
      << 223, 130, 232, 234, 11, 99, 229, 167, 52, 70, 209, 162, 250, 248, 121, 212,
         123, 86, 229, 171, 6, 164, 33, 193, 155, 208, 182, 76, 181, 25, 34, 154 >>,
      << 203, 8, 24, 4, 71, 53, 233, 159, 217, 115, 41, 76, 173, 72, 253, 205,
         142, 139, 225, 29, 30, 44, 108, 206, 235, 171, 67, 174, 80, 186, 52, 182 >>,
      << 148, 107, 126, 162, 90, 237, 157, 255, 247, 111, 83, 63, 216, 113, 228, 87,
         49, 81, 60, 39, 131, 83, 196, 18, 41, 194, 61, 97, 251, 24, 17, 71 >>,
      << 251, 174, 34, 114, 246, 50, 232, 117, 101, 47, 84, 202, 13, 178, 89, 91,
         93, 43, 61, 204, 34, 224, 219, 39, 120, 207, 199, 240, 178, 186, 211, 28 >>,
      << 139, 140, 223, 47, 27, 191, 36, 79, 251, 172, 65, 115, 3, 4, 56, 191,
         93, 24, 158, 3, 9, 139, 51, 79, 15, 229, 3, 131, 252, 195, 60, 213 >>,
      << 36, 212, 100, 31, 237, 142, 225, 88, 198, 58, 237, 104, 151, 98, 177, 76,
         226, 163, 226, 148, 41, 168, 203, 162, 226, 66, 142, 237, 18, 58, 244, 69 >>,
      << 36, 111, 164, 126, 164, 68, 36, 147, 92, 10, 20, 173, 153, 190, 50, 31,
         253, 236, 242, 251, 172, 184, 210, 56, 0, 138, 252, 81, 229, 16, 47, 44 >>,
      << 161, 64, 41, 87, 172, 68, 67, 159, 33, 121, 130, 187, 228, 202, 65, 174,
         181, 218, 89, 172, 25, 135, 254, 210, 210, 118, 55, 224, 231, 190, 193, 37 >>,
      << 96, 213, 74, 60, 61, 188, 186, 63, 55, 47, 128, 148, 5, 44, 134, 197,
         186, 72, 52, 127, 218, 4, 232, 159, 153, 118, 181, 53, 128, 251, 138, 252 >>,
      << 91, 18, 172, 185, 142, 232, 223, 226, 94, 108, 129, 108, 124, 55, 172, 209,
         196, 231, 165, 169, 36, 190, 70, 128, 142, 196, 234, 45, 31, 58, 187, 153 >>,
      << 8, 156, 57, 132, 225, 34, 3, 21, 173, 145, 44, 211, 96, 217, 54, 67,
         9, 29, 46, 221, 27, 225, 74, 137, 49, 97, 78, 81, 208, 196, 151, 109 >>,
      << 177, 13, 140, 98, 96, 93, 18, 225, 43, 60, 157, 154, 35, 99, 116, 240,
         222, 84, 4, 177, 150, 224, 165, 23, 107, 44, 38, 6, 195, 161, 145, 14 >>,
      << 245, 134, 24, 28, 111, 207, 177, 208, 155, 81, 85, 149, 40, 80, 235, 168,
         69, 213, 7, 61, 217, 134, 151, 56, 115, 188, 253, 153, 107, 129, 85, 64 >>,
      << 251, 170, 4, 202, 60, 233, 0, 51, 237, 74, 187, 151, 254, 52, 97, 246,
         17, 146, 139, 174, 41, 198, 80, 166, 60, 131, 98, 164, 229, 128, 165, 255 >>,
      << 31, 116, 179, 66, 68, 155, 121, 181, 65, 144, 84, 202, 113, 231, 90, 56,
         93, 68, 61, 126, 132, 240, 172, 139, 173, 119, 72, 152, 142, 99, 170, 125 >>,
      << 222, 199, 95, 52, 140, 149, 66, 130, 116, 165, 185, 240, 142, 227, 249, 42,
         8, 139, 228, 164, 83, 112, 29, 62, 227, 136, 218, 64, 172, 44, 138, 106 >>,
      << 3, 28, 211, 192, 58, 35, 229, 33, 117, 167, 41, 39, 174, 229, 40, 30,
         239, 123, 250, 175, 56, 189, 30, 19, 222, 26, 96, 35, 186, 130, 122, 187 >>,
      << 186, 9, 118, 210, 183, 30, 250, 186, 135, 254, 141, 22, 28, 14, 90, 68,
         68, 82, 81, 26, 126, 199, 122, 83, 59, 59, 207, 160, 250, 22, 181, 108 >>,
      << 40, 229, 235, 70, 10, 159, 45, 66, 242, 112, 139, 230, 238, 177, 49, 148,
         212, 217, 126, 65, 28, 53, 136, 44, 186, 183, 54, 33, 14, 206, 183, 167 >>,
      << 22, 129, 2, 92, 198, 148, 209, 248, 97, 227, 52, 137, 247, 0, 62, 230,
         105, 174, 2, 163, 18, 164, 8, 91, 36, 13, 105, 250, 134, 113, 2, 217 >>,
      << 159, 80, 120, 198, 42, 166, 163, 81, 108, 113, 68, 223, 168, 101, 51, 68,
         180, 55, 127, 194, 121, 154, 33, 0, 81, 19, 74, 238, 206, 90, 240, 57 >>,
      << 29, 114, 139, 47, 112, 78, 14, 119, 236, 88, 76, 139, 74, 45, 218, 30,
         7, 15, 35, 26, 125, 24, 141, 33, 137, 141, 239, 7, 144, 166, 94, 101 >>,
      << 153, 157, 103, 119, 156, 127, 79, 13, 50, 196, 198, 164, 164, 69, 191, 72,
         211, 140, 234, 198, 196, 220, 129, 187, 34, 116, 17, 118, 29, 224, 86, 248 >>,
      << 159, 77, 255, 160, 61, 91, 190, 238, 162, 226, 243, 25, 225, 31, 90, 163,
         124, 195, 113, 82, 151, 205, 205, 65, 155, 15, 233, 79, 92, 188, 135, 146 >>,
      << 236, 153, 225, 212, 126, 75, 240, 93, 52, 52, 155, 215, 137, 148, 214, 190,
         117, 202, 199, 245, 208, 89, 220, 100, 173, 5, 251, 159, 39, 232, 152, 231 >>,
      << 81, 109, 243, 14, 139, 134, 184, 161, 199, 91, 208, 202, 190, 210, 254, 242,
         80, 72, 148, 169, 188, 154, 169, 205, 84, 181, 251, 23, 44, 6, 21, 183 >>,
      << 177, 170, 168, 144, 81, 197, 210, 189, 65, 52, 238, 79, 255, 104, 55, 102,
         101, 131, 122, 153, 156, 221, 254, 60, 191, 133, 52, 53, 166, 73, 105, 113 >>,
      << 247, 102, 72, 61, 183, 86, 120, 56, 203, 223, 207, 205, 201, 56, 168, 125,
         133, 135, 123, 219, 241, 1, 85, 74, 238, 137, 133, 167, 202, 171, 226, 92 >>,
      << 221, 92, 200, 24, 222, 53, 240, 10, 19, 211, 40, 36, 113, 173, 119, 242,
         137, 177, 35, 187, 196, 200, 229, 237, 230, 98, 133, 243, 23, 119, 163, 68 >>,
      << 240, 117, 244, 159, 171, 209, 234, 115, 51, 164, 128, 147, 4, 252, 140, 113,
         24, 140, 51, 200, 3, 116, 44, 217, 214, 109, 233, 113, 16, 31, 90, 141 >>,
      << 177, 185, 111, 12, 214, 172, 244, 117, 144, 13, 29, 93, 167, 69, 162, 44,
         3, 128, 252, 203, 59, 195, 81, 159, 15, 166, 50, 133, 108, 193, 182, 13 >>,
      << 251, 77, 247, 131, 15, 199, 15, 250, 146, 144, 70, 239, 87, 235, 3, 186,
         2, 75, 200, 111, 115, 182, 168, 39, 52, 157, 250, 70, 175, 254, 47, 136 >>,
      << 191, 172, 25, 243, 21, 232, 250, 97, 187, 30, 20, 205, 7, 20, 84, 84,
         209, 164, 236, 216, 245, 124, 208, 248, 217, 114, 28, 10, 216, 94, 195, 69 >>,
      << 168, 222, 100, 36, 88, 155, 135, 214, 54, 246, 36, 234, 36, 200, 225, 86,
         17, 152, 138, 246, 180, 87, 99, 105, 79, 241, 31, 43, 155, 112, 5, 183 >>,
      << 90, 194, 227, 240, 4, 142, 202, 20, 151, 202, 18, 117, 213, 88, 234, 44,
         5, 70, 76, 18, 232, 79, 235, 157, 119, 82, 9, 160, 255, 87, 236, 177 >>,
      << 53, 237, 3, 76, 223, 254, 5, 218, 74, 168, 251, 71, 126, 187, 145, 139,
         207, 24, 61, 84, 50, 160, 194, 188, 42, 226, 190, 159, 33, 132, 4, 224 >>,
      << 254, 142, 243, 254, 151, 93, 161, 16, 101, 105, 5, 68, 26, 52, 220, 96,
         83, 230, 99, 117, 144, 117, 70, 50, 238, 200, 17, 61, 5, 219, 67, 230 >>,
      << 118, 47, 103, 30, 127, 169, 103, 68, 141, 31, 202, 168, 114, 65, 12, 199,
         236, 185, 19, 23, 72, 97, 77, 168, 89, 108, 23, 164, 185, 215, 68, 124 >>,
      << 52, 23, 157, 26, 92, 46, 160, 144, 64, 139, 180, 152, 144, 52, 253, 22,
         83, 92, 98, 217, 83, 4, 94, 217, 150, 9, 148, 78, 207, 26, 21, 75 >>,
      << 181, 145, 150, 118, 237, 141, 220, 227, 20, 220, 174, 194, 188, 4, 118, 31,
         249, 163, 82, 183, 36, 150, 53, 148, 236, 23, 229, 124, 147, 69, 232, 89 >>,
      << 187, 142, 47, 64, 100, 203, 42, 117, 105, 227, 131, 14, 104, 101, 208, 69,
         242, 171, 81, 74, 156, 108, 103, 2, 89, 12, 232, 153, 70, 226, 212, 166 >>,
      << 48, 99, 0, 148, 227, 72, 78, 191, 180, 164, 123, 194, 214, 29, 37, 236,
         157, 119, 59, 229, 175, 165, 68, 69, 80, 89, 78, 56, 243, 190, 71, 158 >>,
      << 161, 121, 108, 123, 188, 83, 162, 106, 156, 157, 12, 183, 93, 77, 160, 105,
         124, 219, 247, 84, 238, 151, 11, 172, 117, 172, 224, 53, 100, 96, 214, 207 >>,
      << 193, 202, 12, 46, 247, 111, 125, 202, 92, 32, 246, 189, 151, 119, 27, 121,
         80, 76, 141, 226, 58, 92, 109, 117, 218, 111, 35, 121, 127, 202, 216, 249 >>,
      << 227, 25, 88, 94, 135, 152, 216, 221, 146, 183, 77, 80, 163, 29, 184, 126,
         106, 188, 100, 139, 248, 64, 203, 45, 252, 128, 73, 129, 180, 102, 85, 75 >>,
      << 23, 169, 16, 229, 166, 238, 11, 67, 46, 25, 148, 148, 8, 151, 64, 66,
         164, 132, 247, 10, 169, 238, 199, 29, 212, 142, 222, 12, 131, 67, 216, 144 >>,
      << 64, 4, 113, 203, 67, 74, 18, 15, 45, 213, 72, 59, 156, 85, 60, 229,
         12, 83, 93, 107, 224, 86, 150, 67, 190, 255, 8, 105, 83, 101, 110, 168 >>,
      << 23, 52, 88, 128, 86, 144, 210, 220, 52, 107, 142, 25, 251, 237, 221, 137,
         235, 233, 201, 146, 156, 141, 124, 83, 156, 61, 153, 141, 231, 110, 21, 60 >>,
      << 129, 27, 181, 139, 202, 232, 232, 28, 168, 245, 248, 251, 82, 224, 219, 88,
         244, 31, 90, 35, 181, 172, 67, 61, 69, 214, 115, 161, 159, 152, 207, 4 >>,
      << 142, 144, 200, 237, 164, 248, 97, 33, 252, 162, 77, 254, 226, 83, 102, 153,
         88, 9, 75, 175, 52, 16, 214, 70, 249, 59, 67, 83, 143, 180, 248, 112 >>,
      << 55, 14, 27, 215, 62, 1, 39, 147, 155, 248, 81, 51, 125, 229, 46, 239,
         250, 205, 84, 64, 2, 187, 171, 225, 167, 38, 86, 114, 46, 232, 232, 166 >>,
      << 91, 226, 167, 146, 233, 13, 120, 186, 198, 115, 69, 67, 200, 2, 36, 230,
         216, 109, 222, 144, 52, 50, 16, 226, 20, 230, 254, 82, 173, 182, 196, 183 >>,
      << 228, 142, 219, 60, 97, 86, 155, 222, 196, 220, 166, 182, 155, 202, 106, 35,
         60, 227, 232, 49, 200, 235, 193, 81, 130, 13, 118, 27, 255, 23, 73, 3 >>,
      << 72, 144, 227, 50, 190, 162, 161, 89, 105, 233, 232, 89, 11, 117, 39, 219,
         82, 252, 127, 18, 171, 203, 156, 42, 91, 153, 207, 173, 71, 145, 177, 200 >>,
      << 137, 112, 189, 225, 158, 25, 197, 203, 103, 14, 145, 135, 86, 177, 75, 115,
         42, 74, 120, 223, 149, 211, 201, 224, 200, 247, 21, 180, 165, 62, 199, 95 >>,
      << 109, 65, 154, 130, 133, 26, 145, 209, 182, 64, 169, 25, 50, 165, 11, 55,
         84, 246, 71, 161, 154, 8, 28, 159, 131, 202, 172, 31, 49, 229, 113, 116 >>,
      << 77, 14, 6, 94, 126, 183, 145, 4, 187, 90, 103, 75, 184, 7, 15, 203,
         182, 238, 236, 82, 188, 77, 209, 131, 236, 121, 62, 207, 141, 171, 163, 154 >>,
      << 97, 222, 31, 247, 26, 250, 221, 19, 243, 243, 63, 169, 54, 160, 202, 178,
         232, 65, 131, 120, 4, 173, 154, 209, 106, 143, 1, 114, 173, 92, 232, 61 >>,
      << 244, 126, 62, 35, 160, 189, 81, 16, 232, 11, 70, 140, 174, 201, 189, 99,
         117, 173, 18, 154, 133, 112, 150, 164, 190, 172, 93, 142, 90, 68, 110, 72 >>,
      << 156, 200, 210, 224, 145, 108, 223, 67, 168, 254, 227, 160, 76, 33, 92, 48,
         109, 169, 55, 161, 253, 23, 133, 199, 129, 134, 49, 29, 62, 85, 166, 156 >>,
      << 44, 55, 89, 16, 234, 230, 240, 156, 142, 186, 156, 65, 74, 38, 78, 82,
         171, 212, 55, 142, 57, 180, 153, 165, 3, 152, 81, 217, 18, 93, 230, 22 >>,
      << 53, 9, 3, 151, 242, 122, 233, 37, 195, 208, 110, 68, 223, 15, 87, 14,
         33, 228, 186, 179, 31, 78, 219, 148, 65, 31, 201, 6, 164, 42, 79, 159 >>,
      << 9, 80, 219, 94, 91, 182, 75, 238, 62, 156, 61, 203, 136, 6, 126, 190,
         36, 5, 15, 218, 34, 166, 251, 149, 34, 45, 79, 9, 173, 61, 23, 206 >>,
      << 27, 188, 241, 141, 53, 4, 178, 62, 103, 53, 0, 238, 161, 10, 108, 132,
         168, 61, 171, 99, 247, 166, 188, 30, 113, 43, 23, 72, 147, 7, 51, 233 >>,
      << 178, 252, 99, 121, 99, 57, 142, 3, 28, 103, 203, 60, 161, 177, 112, 154,
         158, 128, 217, 222, 209, 129, 212, 102, 74, 63, 7, 97, 196, 9, 2, 13 >>,
      << 70, 198, 116, 49, 109, 235, 177, 92, 118, 19, 46, 75, 160, 30, 93, 180,
         189, 100, 247, 55, 52, 181, 84, 93, 66, 255, 200, 3, 11, 81, 57, 152 >>,
      << 85, 41, 6, 128, 206, 228, 170, 235, 179, 65, 183, 235, 104, 73, 170, 97,
         78, 176, 55, 29, 9, 20, 236, 207, 138, 222, 78, 201, 153, 129, 120, 182 >>,
      << 27, 155, 223, 40, 228, 189, 91, 249, 15, 65, 255, 217, 188, 82, 150, 83,
         161, 143, 67, 74, 109, 216, 73, 88, 145, 7, 229, 35, 26, 23, 135, 166 >>,
      << 63, 103, 152, 152, 171, 233, 66, 240, 216, 198, 107, 73, 62, 103, 197, 135,
         3, 31, 185, 162, 11, 153, 247, 63, 38, 60, 27, 53, 28, 98, 247, 5 >>,
      << 67, 164, 104, 245, 173, 160, 205, 54, 11, 1, 23, 10, 38, 30, 190, 252,
         37, 85, 71, 39, 77, 45, 137, 252, 161, 205, 130, 79, 207, 31, 16, 101 >>,
      << 5, 178, 220, 65, 242, 226, 79, 88, 56, 45, 200, 128, 137, 2, 128, 144,
         85, 236, 36, 64, 53, 47, 127, 244, 64, 208, 34, 99, 3, 119, 15, 248 >>,
      << 167, 151, 237, 130, 92, 196, 226, 115, 164, 182, 231, 79, 251, 15, 247, 87,
         153, 165, 2, 0, 56, 21, 69, 44, 155, 62, 206, 134, 89, 90, 53, 12 >>,
      << 13, 91, 3, 206, 100, 223, 189, 239, 90, 9, 242, 231, 210, 12, 67, 230,
         242, 168, 202, 11, 70, 229, 32, 71, 219, 231, 152, 143, 240, 30, 51, 144 >>,
      << 26, 167, 205, 100, 144, 36, 53, 219, 241, 194, 32, 164, 98, 129, 120, 151,
         169, 73, 94, 2, 64, 191, 103, 134, 117, 106, 81, 70, 161, 164, 23, 244 >>,
      << 142, 117, 4, 230, 240, 169, 30, 163, 253, 103, 36, 230, 2, 220, 193, 136,
         69, 124, 222, 140, 21, 173, 199, 37, 234, 66, 23, 208, 213, 157, 192, 57 >>,
      << 69, 155, 200, 115, 5, 3, 127, 76, 239, 84, 68, 242, 108, 73, 111, 207,
         51, 156, 53, 203, 5, 101, 118, 216, 118, 230, 100, 154, 235, 65, 124, 188 >>,
      << 59, 207, 65, 31, 75, 182, 241, 128, 237, 148, 90, 83, 21, 121, 194, 202,
         44, 151, 149, 113, 20, 62, 132, 12, 100, 116, 229, 139, 135, 238, 217, 131 >>,
      << 245, 223, 229, 84, 226, 56, 136, 117, 173, 221, 42, 172, 92, 246, 81, 224,
         55, 130, 89, 195, 40, 230, 217, 80, 5, 145, 160, 57, 68, 31, 6, 11 >>,
      << 142, 191, 55, 165, 146, 235, 193, 248, 139, 152, 218, 85, 107, 125, 100, 78,
         242, 163, 43, 113, 84, 4, 225, 89, 49, 101, 126, 246, 180, 210, 28, 45 >>,
      << 182, 174, 0, 220, 70, 182, 212, 69, 64, 102, 160, 164, 29, 45, 66, 182,
         230, 93, 73, 252, 2, 211, 255, 250, 216, 65, 118, 243, 33, 98, 208, 185 >>,
      << 130, 102, 183, 155, 116, 87, 102, 187, 8, 104, 138, 97, 84, 66, 202, 46,
         171, 167, 251, 111, 247, 207, 77, 178, 136, 82, 111, 187, 211, 67, 183, 185 >>,
      << 70, 22, 190, 45, 57, 93, 242, 12, 4, 201, 166, 122, 81, 67, 38, 0,
         50, 167, 255, 212, 0, 133, 201, 3, 53, 234, 60, 41, 121, 132, 73, 141 >>,
      << 29, 13, 235, 151, 1, 66, 16, 57, 137, 37, 5, 38, 155, 49, 221, 110,
         209, 139, 100, 202, 232, 23, 24, 140, 53, 11, 173, 34, 154, 37, 178, 56 >>,
      << 71, 27, 225, 189, 12, 52, 102, 195, 105, 207, 225, 38, 152, 237, 77, 238,
         178, 99, 235, 31, 250, 72, 144, 155, 0, 136, 157, 231, 207, 106, 53, 32 >>,
      << 139, 113, 205, 31, 153, 152, 86, 66, 156, 183, 199, 136, 125, 168, 197, 215,
         191, 38, 194, 199, 92, 55, 7, 244, 196, 168, 202, 82, 230, 88, 247, 144 >>,
      << 156, 207, 8, 249, 183, 30, 11, 146, 72, 213, 152, 97, 183, 101, 34, 228,
         239, 104, 198, 207, 69, 214, 113, 4, 72, 168, 88, 128, 29, 206, 44, 233 >>,
      << 185, 156, 247, 178, 48, 245, 162, 62, 84, 107, 244, 23, 15, 225, 47, 120,
         29, 64, 128, 178, 144, 83, 131, 8, 252, 214, 48, 201, 80, 100, 87, 196 >>,
      << 248, 208, 147, 60, 188, 214, 44, 72, 51, 250, 64, 230, 181, 237, 160, 245,
         2, 208, 5, 247, 184, 121, 255, 203, 80, 142, 235, 70, 179, 169, 111, 221 >>,
      << 222, 243, 118, 44, 12, 163, 92, 110, 247, 187, 197, 14, 236, 105, 115, 128,
         231, 207, 25, 85, 249, 104, 45, 146, 26, 75, 96, 39, 124, 113, 81, 212 >>,
      << 192, 166, 196, 36, 172, 113, 87, 174, 64, 131, 152, 223, 126, 95, 69, 82,
         9, 26, 105, 18, 93, 93, 252, 183, 184, 194, 101, 144, 41, 57, 91, 223 >>,
      << 67, 108, 15, 110, 113, 241, 67, 65, 47, 181, 106, 104, 251, 208, 183, 42,
         176, 150, 58, 127, 171, 223, 26, 47, 89, 153, 221, 228, 227, 144, 64, 18 >>,
      << 204, 222, 182, 75, 196, 23, 77, 13, 83, 53, 50, 64, 96, 9, 179, 17,
         100, 172, 39, 188, 109, 77, 152, 6, 254, 159, 235, 157, 44, 134, 46, 35 >>,
      << 38, 245, 113, 0, 155, 139, 67, 112, 101, 108, 171, 144, 77, 220, 249, 151,
         42, 255, 13, 65, 4, 53, 184, 77, 104, 2, 188, 13, 208, 68, 189, 249 >>,
      << 90, 63, 193, 220, 205, 104, 254, 127, 187, 199, 114, 25, 47, 34, 147, 85,
         139, 5, 236, 203, 151, 170, 5, 32, 191, 134, 109, 230, 213, 198, 82, 70 >>,
      << 92, 121, 201, 137, 40, 105, 240, 129, 96, 159, 73, 227, 149, 52, 54, 152,
         21, 33, 10, 128, 223, 38, 240, 165, 133, 114, 33, 250, 81, 16, 54, 110 >>,
      << 142, 108, 108, 199, 119, 201, 220, 15, 163, 217, 33, 0, 8, 7, 32, 229,
         49, 6, 94, 0, 4, 61, 155, 123, 131, 186, 129, 150, 58, 208, 220, 6 >>,
      << 178, 231, 234, 134, 99, 123, 144, 2, 172, 176, 192, 96, 35, 121, 206, 221,
         113, 20, 244, 90, 82, 52, 42, 41, 227, 241, 107, 218, 36, 227, 216, 218 >>,
      << 156, 82, 141, 203, 179, 246, 209, 227, 239, 102, 80, 183, 248, 58, 233, 26,
         211, 184, 168, 68, 110, 216, 62, 5, 246, 60, 142, 31, 238, 163, 112, 145 >>,
      << 30, 57, 56, 24, 100, 250, 229, 198, 52, 41, 166, 92, 253, 246, 118, 125,
         171, 171, 178, 130, 179, 185, 212, 249, 154, 185, 62, 114, 49, 129, 51, 2 >>,
      << 206, 129, 235, 32, 114, 172, 103, 39, 160, 15, 65, 44, 120, 46, 3, 227,
         86, 146, 67, 156, 39, 48, 52, 218, 236, 253, 140, 143, 14, 177, 69, 21 >>,
      << 193, 50, 103, 43, 106, 67, 205, 18, 219, 173, 63, 53, 252, 115, 219, 228,
         78, 95, 81, 207, 20, 148, 113, 187, 174, 36, 24, 245, 7, 116, 149, 125 >>,
      << 236, 211, 53, 255, 94, 105, 118, 189, 71, 248, 182, 237, 56, 54, 7, 202,
         44, 7, 248, 99, 124, 151, 136, 116, 214, 40, 182, 72, 99, 168, 73, 104 >>,
      << 132, 45, 229, 74, 66, 60, 252, 41, 45, 39, 158, 9, 116, 80, 115, 2,
         15, 108, 255, 158, 198, 201, 40, 85, 122, 172, 173, 219, 240, 115, 154, 49 >>,
      << 206, 105, 78, 79, 238, 64, 203, 116, 0, 20, 124, 168, 15, 218, 132, 138,
         118, 204, 221, 123, 121, 106, 102, 227, 82, 102, 178, 163, 240, 28, 62, 62 >>,
      << 60, 201, 103, 198, 131, 166, 164, 39, 215, 172, 160, 133, 41, 17, 56, 169,
         237, 138, 65, 228, 146, 124, 159, 231, 95, 243, 202, 4, 153, 244, 121, 42 >>,
      << 235, 130, 182, 133, 123, 138, 182, 103, 4, 168, 176, 121, 240, 81, 95, 187,
         82, 19, 85, 217, 203, 103, 243, 229, 174, 93, 96, 186, 132, 42, 4, 176 >>,
      << 91, 6, 167, 128, 71, 82, 83, 214, 130, 237, 48, 60, 207, 110, 249, 110,
         47, 64, 6, 218, 12, 137, 237, 66, 87, 223, 133, 121, 12, 234, 30, 90 >>,
      << 73, 141, 127, 131, 76, 77, 46, 83, 50, 102, 166, 155, 42, 210, 71, 188,
         72, 15, 217, 96, 73, 218, 236, 241, 9, 58, 114, 80, 183, 250, 254, 126 >>,
      << 115, 71, 35, 160, 169, 211, 199, 143, 29, 103, 43, 116, 149, 140, 139, 130,
         244, 11, 26, 96, 49, 128, 194, 156, 239, 200, 78, 74, 65, 198, 224, 89 >>,
      << 110, 242, 235, 5, 24, 21, 202, 148, 234, 9, 199, 77, 68, 188, 73, 160,
         95, 145, 9, 9, 172, 30, 196, 17, 38, 223, 202, 169, 196, 143, 121, 23 >>,
      << 58, 219, 61, 46, 231, 112, 210, 81, 182, 4, 142, 172, 80, 53, 72, 180,
         71, 147, 80, 202, 105, 5, 89, 71, 91, 118, 196, 123, 55, 83, 182, 136 >>,
      << 52, 123, 74, 209, 41, 156, 130, 197, 77, 34, 245, 37, 220, 201, 160, 242,
         122, 68, 197, 70, 101, 188, 253, 137, 43, 134, 93, 91, 125, 5, 9, 216 >>,
      << 160, 155, 7, 235, 74, 3, 122, 114, 122, 168, 60, 75, 14, 100, 102, 13,
         36, 147, 201, 170, 124, 159, 197, 96, 216, 196, 251, 184, 214, 37, 166, 230 >>,
      << 132, 63, 252, 235, 143, 211, 148, 191, 206, 174, 196, 108, 59, 141, 228, 88,
         211, 130, 124, 187, 169, 137, 133, 201, 168, 94, 163, 168, 227, 2, 185, 159 >>,
      << 95, 174, 43, 70, 200, 178, 192, 143, 57, 174, 237, 182, 102, 21, 13, 215,
         22, 132, 149, 102, 93, 221, 166, 251, 217, 253, 223, 129, 112, 198, 116, 242 >>,
      << 188, 100, 157, 153, 217, 107, 232, 46, 35, 92, 12, 190, 171, 32, 175, 164,
         128, 211, 139, 219, 240, 134, 120, 199, 189, 70, 154, 182, 200, 47, 10, 190 >>,
      << 35, 221, 227, 121, 153, 169, 196, 92, 195, 148, 53, 142, 163, 219, 253, 237,
         234, 139, 6, 17, 38, 88, 114, 138, 199, 216, 142, 83, 205, 4, 241, 19 >>,
      << 127, 168, 193, 182, 79, 94, 217, 4, 5, 129, 13, 86, 131, 5, 184, 9,
         116, 13, 208, 53, 248, 16, 46, 3, 238, 188, 38, 166, 177, 35, 139, 251 >>,
      << 248, 145, 152, 206, 251, 194, 150, 184, 212, 214, 139, 51, 96, 92, 122, 226,
         234, 50, 139, 38, 25, 253, 144, 198, 191, 39, 11, 84, 49, 39, 105, 187 >>,
      << 228, 161, 236, 74, 154, 224, 156, 81, 141, 124, 119, 60, 59, 155, 123, 115,
         21, 160, 172, 252, 198, 104, 34, 5, 228, 120, 22, 180, 29, 201, 188, 95 >>,
      << 186, 187, 42, 36, 143, 106, 48, 93, 93, 224, 179, 5, 123, 48, 49, 224,
         237, 101, 220, 125, 140, 16, 117, 120, 81, 249, 42, 133, 34, 243, 185, 36 >>,
      << 213, 82, 169, 206, 128, 252, 42, 194, 67, 171, 199, 87, 58, 27, 17, 29,
         16, 78, 245, 69, 75, 29, 205, 18, 144, 19, 182, 162, 181, 13, 241, 4 >>,
      << 229, 58, 217, 73, 217, 205, 137, 229, 254, 7, 22, 254, 197, 198, 203, 138,
         213, 69, 47, 178, 247, 229, 185, 247, 190, 53, 101, 42, 27, 109, 98, 193 >>,
      << 48, 138, 243, 143, 211, 35, 9, 166, 42, 72, 56, 17, 5, 115, 196, 152,
         141, 130, 133, 24, 87, 123, 100, 39, 241, 36, 194, 197, 182, 127, 68, 228 >>,
      << 201, 32, 182, 232, 35, 152, 209, 210, 156, 139, 86, 188, 192, 125, 147, 73,
         77, 61, 148, 87, 84, 95, 92, 97, 59, 165, 251, 236, 97, 46, 17, 131 >>,
      << 92, 57, 101, 8, 104, 255, 29, 233, 236, 130, 219, 96, 31, 63, 81, 152,
         7, 177, 49, 203, 131, 216, 134, 178, 25, 209, 123, 212, 24, 128, 199, 255 >>,
      << 0, 192, 144, 234, 48, 168, 212, 219, 27, 188, 6, 127, 255, 21, 86, 236,
         134, 104, 152, 233, 217, 154, 182, 234, 42, 22, 164, 239, 213, 44, 236, 232 >>,
      << 143, 64, 161, 69, 229, 0, 117, 123, 78, 61, 43, 107, 247, 66, 246, 229,
         179, 238, 238, 249, 232, 34, 124, 201, 251, 230, 81, 7, 42, 125, 252, 141 >>,
      << 47, 247, 140, 41, 171, 26, 12, 169, 205, 230, 6, 59, 201, 14, 59, 184,
         0, 236, 232, 119, 148, 199, 52, 33, 9, 80, 144, 52, 26, 175, 121, 250 >>,
      << 133, 120, 34, 180, 91, 84, 188, 229, 158, 118, 225, 136, 243, 226, 174, 48,
         145, 147, 199, 98, 126, 109, 9, 195, 227, 71, 49, 10, 31, 61, 86, 125 >>,
      << 135, 236, 181, 22, 227, 79, 88, 123, 179, 43, 244, 235, 199, 24, 18, 238,
         56, 59, 199, 128, 0, 241, 127, 12, 86, 249, 55, 76, 45, 98, 93, 10 >>,
      << 101, 199, 146, 236, 100, 180, 148, 110, 160, 53, 157, 196, 17, 58, 36, 142,
         154, 194, 84, 213, 24, 217, 218, 147, 173, 90, 225, 125, 241, 196, 26, 23 >>,
      << 182, 40, 199, 175, 31, 72, 127, 217, 39, 105, 5, 251, 128, 148, 97, 82,
         151, 124, 78, 210, 24, 93, 75, 191, 53, 41, 99, 13, 194, 20, 183, 135 >>,
      << 188, 29, 219, 242, 67, 250, 190, 30, 35, 52, 255, 195, 202, 28, 7, 176,
         116, 154, 191, 185, 251, 244, 13, 29, 20, 2, 33, 192, 48, 202, 150, 10 >>,
      << 85, 149, 221, 79, 240, 15, 22, 55, 181, 62, 210, 23, 36, 27, 211, 115,
         77, 56, 73, 147, 231, 34, 37, 51, 0, 120, 42, 185, 115, 160, 215, 29 >>,
      << 218, 136, 48, 192, 126, 232, 144, 193, 92, 43, 12, 159, 21, 216, 171, 168,
         37, 83, 205, 152, 205, 120, 20, 0, 37, 166, 226, 139, 226, 182, 44, 74 >>,
      << 203, 138, 211, 135, 63, 128, 151, 66, 61, 132, 94, 118, 228, 97, 126, 165,
         116, 246, 27, 157, 35, 19, 126, 147, 86, 234, 181, 192, 224, 254, 50, 111 >>,
      << 59, 56, 234, 200, 231, 126, 225, 16, 50, 175, 112, 252, 39, 239, 25, 91,
         14, 28, 111, 103, 22, 163, 174, 173, 5, 9, 148, 179, 64, 161, 211, 200 >>,
      << 147, 85, 182, 99, 135, 200, 121, 113, 10, 205, 110, 211, 0, 25, 219, 137,
         183, 78, 135, 96, 152, 115, 102, 179, 232, 224, 174, 156, 109, 250, 224, 184 >>,
      << 129, 89, 72, 243, 179, 114, 246, 37, 15, 111, 240, 116, 239, 33, 194, 191,
         62, 93, 143, 130, 70, 220, 38, 13, 137, 13, 154, 153, 233, 253, 142, 77 >>,
      << 35, 84, 78, 125, 69, 51, 42, 143, 182, 26, 93, 208, 176, 222, 55, 52,
         131, 34, 7, 192, 47, 37, 9, 27, 245, 210, 2, 85, 171, 16, 117, 173 >>,
      << 25, 146, 127, 136, 188, 43, 255, 120, 220, 17, 21, 251, 171, 130, 57, 93,
         39, 233, 126, 201, 208, 41, 52, 219, 191, 230, 218, 61, 244, 129, 76, 250 >>,
      << 138, 154, 33, 220, 184, 183, 22, 212, 13, 37, 100, 94, 91, 61, 176, 236,
         39, 113, 152, 92, 35, 103, 200, 186, 173, 76, 102, 128, 53, 147, 80, 218 >>,
      << 64, 157, 101, 67, 210, 201, 223, 188, 48, 89, 26, 137, 159, 200, 149, 148,
         59, 217, 65, 161, 194, 135, 86, 159, 58, 38, 74, 27, 83, 23, 52, 114 >>,
      << 26, 32, 185, 7, 104, 172, 161, 10, 13, 25, 63, 231, 39, 51, 98, 142,
         145, 88, 61, 240, 113, 26, 115, 252, 130, 253, 173, 132, 12, 23, 131, 29 >>,
      << 199, 12, 193, 96, 169, 57, 64, 106, 139, 79, 28, 251, 34, 236, 26, 127,
         157, 103, 150, 196, 106, 4, 55, 238, 76, 82, 108, 212, 119, 69, 104, 131 >>,
      << 43, 77, 120, 65, 162, 74, 65, 211, 105, 249, 3, 171, 67, 146, 118, 249,
         253, 26, 10, 164, 235, 226, 239, 93, 199, 125, 163, 24, 165, 132, 18, 119 >>,
      << 237, 236, 47, 101, 174, 235, 155, 123, 211, 100, 245, 75, 199, 187, 205, 104,
         25, 236, 20, 112, 255, 87, 56, 181, 64, 255, 31, 188, 54, 137, 92, 194 >>,
      << 248, 102, 63, 173, 97, 167, 218, 29, 81, 135, 243, 110, 55, 227, 174, 161,
         206, 124, 106, 229, 182, 74, 177, 225, 89, 224, 117, 21, 73, 176, 240, 242 >>,
      << 206, 93, 110, 208, 121, 94, 232, 124, 62, 22, 108, 36, 21, 28, 3, 110,
         80, 88, 133, 221, 206, 172, 129, 150, 61, 158, 143, 104, 41, 34, 105, 240 >>,
      << 238, 84, 151, 64, 109, 87, 186, 171, 47, 176, 138, 78, 239, 104, 187, 243,
         45, 19, 33, 67, 197, 67, 236, 231, 223, 44, 56, 198, 148, 93, 71, 45 >>,
      << 157, 85, 224, 38, 70, 119, 16, 81, 151, 121, 233, 101, 184, 248, 246, 101,
         37, 82, 62, 79, 178, 82, 92, 119, 84, 33, 156, 92, 242, 11, 133, 179 >>,
      << 219, 148, 68, 4, 5, 34, 243, 16, 151, 141, 131, 24, 198, 110, 10, 27,
         177, 197, 119, 33, 72, 35, 191, 41, 201, 222, 252, 53, 253, 60, 233, 143 >>,
      << 75, 42, 144, 246, 73, 108, 88, 221, 28, 7, 9, 133, 147, 7, 193, 89,
         160, 78, 34, 58, 241, 213, 60, 74, 29, 0, 55, 37, 81, 38, 189, 180 >>,
      << 186, 108, 229, 253, 62, 21, 62, 245, 28, 101, 92, 201, 192, 54, 139, 249,
         129, 171, 23, 48, 188, 21, 220, 152, 192, 233, 245, 255, 248, 48, 86, 26 >>,
      << 178, 30, 231, 179, 158, 190, 30, 6, 231, 254, 60, 70, 47, 41, 51, 128,
         20, 36, 90, 16, 246, 91, 73, 77, 236, 221, 79, 106, 106, 92, 213, 95 >>,
      << 18, 45, 50, 168, 27, 58, 29, 178, 202, 69, 216, 252, 134, 222, 176, 98,
         233, 171, 169, 51, 33, 213, 68, 93, 155, 109, 130, 94, 218, 74, 229, 85 >>,
      << 225, 65, 112, 32, 117, 89, 75, 130, 135, 175, 119, 148, 235, 213, 222, 225,
         200, 173, 56, 25, 88, 79, 9, 161, 1, 113, 8, 201, 237, 158, 136, 195 >>,
      << 48, 27, 182, 143, 202, 107, 108, 133, 212, 61, 116, 235, 251, 18, 109, 182,
         110, 39, 94, 106, 168, 83, 246, 74, 240, 222, 139, 168, 240, 118, 86, 121 >>,
      << 231, 4, 99, 19, 249, 184, 35, 192, 1, 229, 156, 244, 184, 119, 128, 18,
         114, 76, 149, 9, 135, 134, 232, 35, 30, 211, 254, 113, 96, 106, 189, 184 >>,
      << 5, 41, 110, 174, 129, 234, 60, 204, 187, 189, 4, 202, 160, 239, 176, 130,
         54, 189, 151, 81, 142, 247, 245, 49, 184, 46, 17, 115, 125, 252, 173, 51 >> >> )
  @@
  (   << 121, 190, 102, 126, 249, 220, 187, 172, 85, 160, 98, 149, 206, 135, 11, 7,
         2, 155, 252, 219, 45, 206, 40, 217, 89, 242, 129, 91, 22, 248, 23, 152,
         183, 197, 37, 136, 217, 92, 59, 154, 162, 91, 4, 3, 241, 238, 247, 87,
         2, 232, 75, 183, 89, 122, 171, 230, 99, 184, 47, 111, 4, 239, 39 >>
   :> <<
      << 16, 92, 20, 255, 181, 109, 116, 214, 139, 35, 96, 112, 110, 244, 27, 212,
         73, 165, 130, 237, 129, 134, 56, 224, 164, 112, 166, 60, 37, 128, 49, 121 >>,
      << 157, 33, 181, 243, 134, 152, 157, 165, 181, 94, 123, 139, 107, 133, 193, 194,
         92, 138, 3, 19, 149, 204, 163, 28, 123, 231, 236, 112, 230, 204, 111, 93 >>,
      << 118, 172, 95, 184, 117, 16, 113, 25, 74, 195, 12, 189, 83, 176, 112, 155,
         166, 57, 164, 106, 233, 136, 207, 84, 136, 145, 217, 25, 101, 17, 96, 127 >>,
      << 98, 242, 49, 178, 48, 188, 42, 54, 111, 197, 31, 153, 224, 191, 215, 250,
         43, 28, 113, 24, 219, 177, 32, 82, 195, 100, 135, 207, 161, 187, 89, 17 >>,
      << 38, 101, 43, 205, 33, 130, 241, 80, 252, 227, 43, 227, 84, 16, 86, 207,
         185, 167, 151, 90, 241, 180, 174, 10, 176, 76, 99, 53, 145, 185, 27, 219 >>,
      << 45, 35, 4, 160, 229, 69, 26, 128, 243, 161, 126, 59, 73, 202, 27, 78,
         152, 149, 217, 28, 59, 160, 77, 172, 108, 186, 210, 27, 119, 71, 85, 142 >>,
      << 127, 91, 69, 230, 210, 101, 123, 214, 41, 115, 184, 185, 112, 31, 117, 54,
         170, 186, 34, 173, 209, 191, 55, 43, 239, 133, 57, 128, 71, 40, 38, 17 >>,
      << 59, 99, 220, 8, 161, 114, 61, 130, 136, 119, 131, 45, 86, 55, 99, 216,
         160, 111, 166, 14, 182, 195, 170, 158, 82, 158, 112, 178, 227, 94, 107, 84 >>,
      << 176, 21, 107, 210, 138, 24, 136, 82, 136, 91, 153, 49, 15, 107, 10, 155,
         53, 59, 100, 210, 37, 153, 255, 155, 10, 5, 17, 57, 127, 15, 126, 50 >>,
      << 46, 235, 127, 115, 137, 220, 193, 69, 128, 244, 96, 148, 196, 5, 224, 105,
         108, 98, 73, 66, 184, 114, 113, 255, 96, 118, 59, 184, 3, 69, 89, 251 >>,
      << 11, 166, 210, 166, 58, 87, 53, 20, 117, 58, 118, 201, 30, 139, 233, 15,
         14, 154, 199, 54, 73, 73, 170, 31, 131, 40, 99, 175, 9, 6, 239, 108 >>,
      << 14, 237, 168, 247, 78, 157, 190, 46, 204, 59, 206, 142, 170, 145, 55, 163,
         109, 175, 223, 111, 75, 51, 68, 72, 203, 114, 9, 162, 33, 191, 110, 198 >>,
      << 91, 129, 173, 194, 179, 194, 66, 243, 105, 176, 46, 32, 196, 174, 69, 0,
         116, 223, 55, 21, 122, 64, 167, 34, 73, 40, 39, 179, 31, 248, 132, 191 >>,
      << 191, 30, 17, 13, 169, 100, 209, 119, 206, 173, 44, 122, 32, 245, 178, 48,
         9, 141, 179, 124, 80, 6, 197, 10, 68, 208, 143, 12, 250, 122, 150, 70 >>,
      << 117, 90, 0, 142, 42, 31, 216, 104, 255, 5, 133, 241, 229, 69, 39, 77,
         60, 89, 172, 251, 121, 136, 150, 97, 43, 40, 96, 122, 2, 66, 11, 93 >>,
      << 90, 134, 145, 153, 211, 149, 119, 18, 1, 59, 110, 235, 164, 180, 159, 196,
         213, 172, 45, 173, 93, 43, 16, 113, 167, 46, 175, 33, 196, 52, 74, 49 >>,
      << 120, 159, 121, 65, 186, 201, 6, 23, 124, 196, 55, 34, 64, 21, 60, 131,
         71, 115, 78, 213, 244, 216, 244, 61, 159, 141, 125, 80, 57, 240, 104, 164 >>,
      << 197, 39, 150, 174, 159, 73, 221, 197, 177, 151, 227, 53, 99, 246, 179, 127,
         171, 112, 147, 224, 228, 151, 94, 226, 123, 26, 30, 249, 41, 173, 84, 249 >>,
      << 199, 182, 174, 112, 136, 64, 40, 137, 100, 143, 93, 102, 84, 66, 202, 64,
         209, 89, 77, 33, 17, 156, 132, 31, 75, 109, 37, 243, 142, 74, 152, 93 >>,
      << 244, 226, 143, 170, 66, 13, 79, 253, 175, 71, 163, 218, 59, 8, 6, 5,
         243, 120, 98, 59, 43, 47, 123, 175, 142, 90, 151, 75, 238, 110, 99, 173 >>,
      << 202, 36, 239, 21, 174, 243, 44, 157, 141, 7, 146, 124, 92, 70, 116, 88,
         82, 47, 166, 198, 138, 40, 102, 222, 202, 134, 132, 108, 178, 61, 130, 70 >>,
      << 171, 187, 202, 251, 158, 163, 82, 198, 91, 241, 238, 156, 218, 185, 66, 201,
         167, 172, 121, 85, 41, 150, 121, 193, 118, 188, 87, 161, 239, 38, 248, 17 >>,
      << 182, 133, 36, 104, 131, 66, 87, 197, 215, 207, 184, 175, 113, 138, 27, 26,
         235, 21, 186, 4, 154, 186, 178, 67, 241, 184, 51, 99, 132, 71, 151, 10 >>,
      << 14, 11, 140, 83, 125, 96, 109, 63, 26, 95, 110, 105, 36, 117, 171, 175,
         142, 36, 27, 216, 165, 171, 218, 243, 100, 34, 21, 194, 111, 152, 8, 197 >>,
      << 58, 39, 28, 123, 47, 179, 100, 166, 192, 217, 10, 105, 60, 218, 194, 221,
         139, 154, 26, 101, 219, 227, 146, 55, 92, 125, 219, 248, 55, 239, 227, 113 >>,
      << 199, 60, 91, 202, 15, 160, 210, 128, 188, 103, 216, 245, 158, 153, 184, 245,
         92, 185, 240, 127, 247, 67, 127, 2, 14, 190, 45, 96, 20, 40, 78, 105 >>,
      << 106, 82, 16, 247, 49, 162, 39, 184, 210, 223, 203, 211, 6, 32, 234, 21,
         188, 148, 81, 144, 36, 182, 137, 152, 227, 72, 109, 140, 229, 71, 247, 134 >>,
      << 171, 38, 147, 0, 42, 208, 200, 29, 94, 58, 144, 33, 167, 95, 91, 54,
         223, 228, 245, 173, 133, 153, 102, 180, 184, 49, 125, 76, 250, 202, 170, 94 >>,
      << 142, 189, 1, 140, 31, 81, 155, 77, 87, 239, 71, 225, 210, 243, 46, 233,
         131, 243, 137, 16, 159, 174, 205, 188, 33, 138, 119, 21, 215, 165, 182, 228 >>,
      << 238, 187, 232, 180, 216, 186, 152, 98, 10, 110, 84, 157, 10, 32, 99, 213,
         5, 43, 109, 26, 144, 108, 192, 206, 176, 179, 67, 226, 9, 191, 226, 217 >>,
      << 119, 44, 86, 114, 182, 188, 10, 216, 161, 43, 43, 133, 163, 80, 2, 147,
         11, 54, 162, 0, 175, 71, 79, 107, 104, 255, 213, 111, 34, 193, 9, 237 >>,
      << 242, 230, 250, 110, 25, 152, 25, 194, 137, 5, 112, 171, 76, 246, 100, 49,
         254, 70, 37, 208, 109, 112, 33, 127, 233, 177, 38, 60, 188, 253, 187, 121 >>,
      << 32, 193, 77, 173, 234, 97, 120, 32, 30, 69, 212, 184, 212, 174, 109, 86,
         200, 163, 192, 89, 20, 55, 23, 151, 24, 22, 22, 146, 9, 245, 251, 189 >>,
      << 34, 217, 103, 253, 252, 85, 43, 179, 159, 70, 229, 81, 231, 197, 125, 201,
         217, 168, 7, 247, 43, 215, 253, 227, 135, 201, 93, 35, 252, 171, 57, 144 >>,
      << 45, 237, 204, 84, 51, 77, 38, 244, 199, 58, 117, 176, 82, 65, 186, 204,
         194, 155, 220, 86, 102, 155, 177, 37, 197, 7, 128, 201, 20, 11, 88, 195 >>,
      << 10, 207, 182, 90, 128, 205, 181, 80, 212, 230, 213, 18, 12, 73, 243, 32,
         153, 59, 48, 49, 72, 181, 158, 190, 175, 244, 166, 85, 174, 2, 220, 150 >>,
      << 114, 125, 147, 43, 245, 175, 233, 176, 41, 91, 124, 190, 0, 163, 159, 217,
         160, 190, 170, 155, 45, 224, 104, 73, 92, 2, 227, 158, 51, 15, 169, 40 >>,
      << 243, 2, 70, 2, 196, 55, 106, 201, 85, 79, 177, 175, 13, 174, 240, 113,
         209, 248, 52, 185, 122, 43, 120, 108, 107, 204, 74, 218, 83, 202, 117, 192 >>,
      << 61, 172, 32, 177, 234, 175, 225, 165, 253, 151, 32, 129, 28, 13, 91, 26,
         112, 226, 153, 137, 34, 105, 78, 155, 206, 96, 141, 15, 38, 171, 1, 195 >>,
      << 157, 89, 236, 180, 179, 208, 212, 205, 247, 69, 122, 122, 122, 16, 126, 126,
         101, 47, 10, 199, 72, 44, 113, 24, 253, 190, 141, 234, 77, 134, 138, 108 >>,
      << 171, 183, 229, 162, 14, 210, 139, 252, 221, 219, 87, 18, 8, 29, 58, 96,
         0, 88, 41, 72, 118, 184, 178, 21, 19, 71, 40, 223, 29, 102, 253, 11 >>,
      << 77, 237, 178, 220, 245, 59, 138, 222, 29, 208, 238, 193, 72, 24, 255, 124,
         52, 187, 83, 102, 2, 250, 94, 0, 121, 219, 19, 74, 52, 41, 31, 242 >>,
      << 45, 67, 215, 125, 26, 195, 136, 129, 125, 118, 2, 129, 89, 85, 243, 8,
         25, 253, 199, 28, 249, 150, 56, 152, 83, 56, 148, 9, 234, 79, 202, 53 >>,
      << 154, 48, 137, 144, 37, 51, 16, 17, 11, 122, 208, 185, 142, 244, 66, 140,
         104, 119, 104, 220, 64, 35, 233, 51, 33, 6, 63, 47, 170, 219, 181, 112 >>,
      << 76, 181, 77, 101, 20, 99, 85, 70, 79, 54, 7, 204, 242, 189, 147, 214,
         148, 162, 127, 128, 63, 10, 170, 155, 99, 31, 221, 16, 131, 38, 241, 213 >>,
      << 121, 79, 67, 117, 234, 89, 58, 199, 94, 177, 8, 18, 223, 219, 67, 227,
         98, 66, 74, 200, 121, 183, 181, 218, 60, 249, 115, 13, 7, 71, 74, 28 >>,
      << 90, 85, 56, 24, 61, 144, 202, 249, 194, 41, 133, 46, 36, 195, 11, 112,
         107, 213, 130, 94, 120, 46, 168, 233, 211, 162, 67, 239, 205, 140, 178, 12 >>,
      << 21, 222, 166, 80, 103, 10, 162, 184, 226, 57, 221, 180, 55, 178, 205, 47,
         225, 120, 170, 14, 224, 72, 230, 93, 174, 32, 248, 217, 59, 132, 115, 0 >>,
      << 112, 249, 160, 92, 139, 245, 179, 224, 174, 104, 128, 190, 147, 54, 108, 8,
         31, 70, 122, 160, 17, 78, 179, 187, 48, 227, 62, 84, 122, 242, 250, 102 >>,
      << 59, 243, 30, 63, 196, 80, 117, 132, 40, 141, 165, 232, 125, 28, 206, 66,
         151, 173, 8, 228, 170, 225, 138, 24, 58, 16, 24, 108, 90, 74, 211, 186 >>,
      << 89, 190, 130, 128, 115, 201, 95, 245, 46, 204, 163, 112, 64, 77, 18, 56,
         122, 174, 67, 115, 53, 88, 96, 104, 205, 183, 118, 27, 211, 91, 145, 18 >>,
      << 183, 167, 83, 66, 46, 240, 84, 92, 255, 7, 34, 10, 139, 209, 36, 124,
         37, 82, 186, 90, 42, 94, 1, 118, 192, 148, 164, 194, 148, 39, 66, 2 >>,
      << 182, 24, 152, 125, 229, 65, 0, 200, 237, 192, 179, 3, 59, 241, 98, 250,
         124, 44, 54, 86, 157, 81, 207, 232, 166, 237, 93, 248, 20, 185, 48, 161 >>,
      << 152, 171, 85, 45, 139, 124, 127, 161, 75, 209, 91, 242, 202, 94, 229, 19,
         100, 242, 125, 178, 227, 25, 243, 155, 208, 3, 22, 175, 198, 189, 243, 32 >>,
      << 161, 90, 15, 244, 153, 83, 197, 238, 144, 231, 32, 131, 85, 124, 103, 192,
         90, 205, 62, 250, 163, 131, 109, 63, 222, 72, 68, 152, 162, 57, 195, 123 >>,
      << 58, 47, 33, 205, 222, 167, 211, 114, 34, 130, 34, 46, 143, 158, 241, 96,
         96, 22, 171, 111, 2, 94, 236, 139, 158, 43, 87, 242, 14, 83, 213, 71 >>,
      << 12, 108, 104, 9, 58, 63, 29, 109, 248, 13, 194, 49, 34, 69, 227, 222,
         51, 146, 81, 44, 204, 41, 57, 52, 140, 10, 21, 244, 70, 74, 240, 100 >>,
      << 31, 171, 194, 55, 242, 220, 111, 112, 97, 124, 118, 211, 42, 248, 54, 44,
         166, 187, 33, 36, 193, 27, 55, 98, 114, 168, 122, 194, 248, 154, 92, 228 >>,
      << 38, 26, 118, 92, 73, 226, 38, 240, 40, 92, 82, 1, 103, 175, 197, 194,
         59, 75, 64, 230, 86, 113, 154, 7, 135, 101, 222, 214, 239, 71, 10, 175 >>,
      << 101, 50, 182, 223, 108, 253, 227, 97, 166, 93, 33, 113, 90, 132, 134, 167,
         188, 42, 44, 5, 148, 174, 90, 190, 80, 2, 62, 92, 226, 69, 4, 102 >>,
      << 3, 148, 233, 44, 79, 141, 84, 99, 80, 73, 166, 247, 201, 48, 205, 130,
         131, 249, 228, 47, 79, 72, 8, 234, 1, 77, 142, 59, 208, 47, 182, 254 >>,
      << 11, 102, 193, 57, 32, 51, 30, 183, 246, 0, 221, 224, 138, 161, 190, 249,
         232, 171, 17, 249, 118, 236, 14, 18, 158, 128, 145, 43, 155, 207, 143, 7 >>,
      << 196, 145, 52, 235, 134, 92, 155, 67, 25, 103, 224, 101, 66, 218, 2, 111,
         104, 144, 23, 167, 34, 75, 64, 207, 106, 198, 237, 248, 27, 149, 39, 218 >>,
      << 80, 112, 114, 116, 16, 233, 196, 83, 247, 100, 217, 215, 167, 220, 159, 5,
         159, 184, 32, 158, 42, 94, 33, 50, 79, 87, 157, 122, 175, 199, 208, 86 >>,
      << 133, 101, 135, 241, 8, 111, 192, 206, 208, 63, 243, 110, 109, 255, 174, 164,
         169, 152, 237, 207, 75, 51, 52, 23, 140, 100, 204, 107, 62, 191, 230, 75 >>,
      << 49, 202, 248, 247, 9, 14, 167, 218, 197, 88, 14, 201, 74, 125, 195, 255,
         161, 43, 14, 111, 142, 46, 94, 30, 65, 43, 35, 251, 101, 204, 78, 241 >>,
      << 178, 207, 141, 71, 183, 112, 63, 126, 235, 158, 20, 13, 43, 99, 10, 194,
         194, 160, 81, 94, 144, 25, 111, 84, 227, 112, 149, 198, 112, 191, 152, 38 >>,
      << 34, 213, 156, 92, 7, 51, 8, 64, 205, 187, 42, 198, 51, 154, 68, 199,
         210, 28, 138, 9, 51, 151, 200, 12, 181, 30, 64, 33, 162, 198, 86, 228 >>,
      << 98, 97, 91, 199, 26, 166, 123, 110, 165, 164, 195, 166, 81, 80, 165, 59,
         147, 241, 226, 175, 135, 92, 79, 172, 83, 180, 111, 137, 104, 47, 208, 228 >>,
      << 117, 201, 40, 11, 130, 123, 245, 56, 231, 120, 11, 172, 204, 14, 59, 239,
         216, 16, 4, 196, 8, 63, 213, 188, 236, 86, 9, 5, 137, 126, 73, 38 >>,
      << 129, 197, 108, 142, 100, 75, 73, 161, 109, 158, 101, 112, 39, 120, 208, 227,
         117, 30, 124, 48, 62, 143, 71, 55, 189, 138, 197, 67, 255, 207, 138, 244 >>,
      << 113, 165, 158, 161, 26, 81, 113, 131, 233, 166, 15, 13, 236, 10, 165, 236,
         249, 199, 152, 96, 59, 76, 80, 185, 71, 29, 31, 56, 106, 49, 149, 89 >>,
      << 211, 148, 98, 5, 114, 124, 73, 44, 80, 26, 24, 250, 39, 41, 12, 166,
         195, 0, 13, 129, 172, 146, 134, 187, 171, 188, 181, 85, 237, 252, 194, 91 >>,
      << 64, 100, 186, 174, 1, 104, 188, 130, 164, 18, 174, 122, 98, 101, 6, 245,
         181, 156, 109, 153, 254, 193, 246, 229, 58, 160, 16, 170, 166, 90, 130, 26 >>,
      << 231, 105, 178, 208, 173, 249, 15, 73, 83, 56, 7, 95, 242, 239, 122, 117,
         48, 48, 17, 139, 100, 227, 37, 71, 44, 193, 163, 99, 155, 117, 177, 76 >>,
      << 182, 64, 208, 8, 21, 161, 19, 67, 69, 25, 220, 173, 74, 28, 213, 21,
         93, 101, 77, 134, 253, 178, 17, 209, 51, 163, 226, 68, 142, 175, 100, 25 >>,
      << 121, 73, 114, 130, 109, 135, 10, 47, 243, 132, 231, 217, 131, 226, 66, 106,
         138, 9, 38, 8, 159, 95, 46, 177, 198, 216, 100, 156, 164, 87, 47, 1 >>,
      << 1, 10, 146, 84, 47, 167, 220, 61, 137, 20, 240, 67, 129, 144, 125, 54,
         119, 209, 83, 147, 162, 127, 68, 255, 193, 126, 32, 137, 126, 175, 196, 177 >>,
      << 131, 238, 61, 223, 23, 111, 173, 144, 149, 155, 25, 138, 154, 8, 193, 48,
         66, 168, 215, 138, 95, 213, 215, 80, 232, 187, 129, 13, 6, 90, 89, 159 >>,
      << 67, 76, 166, 141, 174, 169, 69, 249, 174, 99, 132, 0, 218, 173, 232, 196,
         188, 235, 175, 180, 161, 46, 137, 140, 16, 248, 76, 48, 13, 69, 219, 119 >>,
      << 202, 190, 99, 82, 232, 27, 57, 235, 97, 139, 61, 7, 235, 187, 112, 186,
         142, 78, 0, 44, 55, 37, 108, 93, 37, 123, 24, 234, 121, 117, 55, 93 >>,
      << 24, 31, 229, 9, 141, 150, 184, 55, 227, 100, 17, 113, 38, 202, 161, 96,
         200, 101, 127, 192, 205, 26, 210, 19, 228, 217, 30, 107, 2, 167, 82, 223 >>,
      << 142, 163, 207, 49, 107, 251, 90, 248, 76, 255, 227, 241, 208, 229, 13, 147,
         251, 255, 109, 23, 70, 180, 243, 235, 102, 252, 70, 214, 99, 239, 106, 198 >>,
      << 15, 43, 94, 64, 246, 94, 94, 130, 157, 128, 67, 21, 86, 60, 98, 34,
         189, 39, 113, 100, 226, 129, 93, 9, 98, 59, 40, 211, 154, 133, 63, 144 >>,
      << 233, 190, 159, 45, 55, 15, 168, 241, 113, 77, 232, 188, 110, 250, 136, 83,
         12, 54, 113, 65, 131, 17, 138, 219, 4, 21, 134, 177, 199, 10, 21, 170 >>,
      << 73, 101, 64, 166, 247, 35, 110, 54, 96, 142, 176, 43, 245, 111, 255, 167,
         249, 48, 51, 63, 178, 105, 40, 135, 175, 67, 145, 59, 148, 196, 186, 142 >>,
      << 146, 146, 193, 31, 211, 31, 15, 115, 112, 113, 199, 109, 224, 237, 233, 27,
         131, 33, 27, 200, 126, 29, 240, 118, 163, 12, 102, 252, 37, 57, 253, 108 >>,
      << 186, 163, 107, 210, 58, 122, 138, 204, 49, 173, 224, 182, 172, 104, 149, 94,
         123, 202, 187, 230, 28, 33, 223, 151, 118, 185, 171, 233, 174, 87, 254, 254 >>,
      << 251, 199, 28, 165, 163, 45, 199, 62, 103, 35, 154, 253, 120, 255, 138, 194,
         150, 3, 32, 124, 177, 191, 10, 14, 83, 25, 135, 134, 215, 208, 236, 45 >>,
      << 232, 254, 203, 77, 251, 104, 140, 39, 3, 200, 0, 244, 207, 63, 169, 173,
         81, 42, 51, 29, 28, 171, 163, 63, 0, 214, 65, 228, 126, 251, 151, 19 >>,
      << 45, 116, 172, 156, 205, 237, 119, 223, 50, 32, 83, 228, 153, 157, 182, 195,
         235, 125, 253, 191, 8, 50, 215, 2, 142, 58, 74, 18, 13, 235, 112, 7 >>,
      << 33, 207, 90, 103, 140, 69, 161, 126, 93, 95, 118, 200, 112, 29, 90, 58,
         143, 188, 223, 159, 111, 31, 33, 68, 16, 63, 41, 44, 203, 114, 6, 198 >>,
      << 155, 86, 222, 216, 93, 201, 62, 226, 1, 120, 240, 224, 109, 108, 219, 37,
         92, 80, 118, 100, 212, 211, 150, 156, 160, 111, 178, 151, 113, 191, 21, 122 >>,
      << 2, 99, 77, 217, 53, 194, 192, 116, 73, 204, 113, 44, 97, 56, 211, 177,
         84, 131, 45, 83, 97, 0, 82, 201, 143, 199, 34, 145, 171, 158, 126, 77 >>,
      << 203, 187, 113, 205, 66, 170, 42, 207, 191, 173, 189, 196, 84, 244, 157, 117,
         58, 133, 143, 145, 75, 13, 214, 202, 92, 225, 102, 236, 158, 91, 161, 104 >>,
      << 28, 120, 60, 203, 208, 8, 188, 129, 98, 132, 184, 119, 129, 50, 126, 227,
         47, 223, 113, 85, 232, 234, 128, 235, 254, 187, 193, 181, 212, 164, 135, 36 >>,
      << 213, 241, 244, 109, 161, 70, 119, 174, 131, 118, 81, 232, 183, 28, 155, 151,
         53, 198, 130, 129, 110, 196, 70, 195, 66, 86, 209, 22, 192, 10, 240, 249 >>,
      << 104, 246, 88, 72, 235, 67, 217, 151, 181, 204, 254, 35, 91, 204, 188, 163,
         207, 124, 124, 87, 251, 250, 147, 33, 70, 243, 222, 28, 70, 47, 127, 160 >>,
      << 49, 122, 10, 95, 84, 110, 162, 61, 64, 141, 163, 61, 117, 153, 60, 242,
         26, 127, 112, 247, 202, 169, 220, 143, 211, 252, 28, 238, 117, 95, 238, 210 >>,
      << 222, 111, 136, 35, 124, 38, 245, 160, 100, 56, 222, 253, 7, 166, 39, 205,
         20, 246, 166, 91, 22, 82, 117, 142, 131, 163, 139, 61, 42, 11, 86, 56 >>,
      << 188, 60, 234, 168, 135, 132, 182, 221, 55, 11, 66, 241, 192, 223, 254, 74,
         149, 150, 99, 58, 127, 6, 18, 209, 33, 253, 26, 171, 242, 154, 108, 143 >>,
      << 95, 71, 59, 72, 111, 237, 10, 183, 142, 125, 135, 82, 158, 36, 71, 37,
         238, 222, 165, 40, 20, 6, 188, 32, 253, 94, 83, 78, 174, 96, 163, 21 >>,
      << 152, 145, 209, 200, 202, 184, 28, 208, 222, 66, 30, 52, 131, 64, 118, 133,
         202, 97, 144, 88, 227, 203, 6, 236, 247, 109, 250, 217, 158, 8, 101, 184 >>,
      << 251, 3, 77, 226, 203, 159, 211, 213, 97, 103, 137, 243, 32, 32, 37, 113,
         129, 68, 36, 92, 33, 28, 196, 162, 52, 251, 203, 80, 199, 110, 84, 128 >>,
      << 38, 219, 104, 97, 131, 202, 6, 114, 191, 43, 122, 177, 57, 201, 3, 27,
         119, 64, 130, 84, 213, 233, 167, 69, 244, 102, 223, 125, 97, 200, 129, 254 >>,
      << 54, 189, 127, 51, 62, 156, 143, 251, 140, 68, 71, 38, 46, 240, 3, 37,
         3, 42, 170, 38, 22, 8, 61, 238, 43, 100, 100, 78, 117, 208, 178, 5 >>,
      << 104, 188, 249, 75, 127, 59, 138, 175, 46, 51, 58, 211, 66, 162, 24, 45,
         12, 4, 172, 242, 7, 31, 96, 87, 73, 130, 129, 86, 120, 78, 182, 16 >>,
      << 240, 196, 184, 129, 100, 249, 90, 1, 3, 78, 19, 226, 95, 179, 182, 171,
         232, 228, 77, 32, 241, 94, 237, 174, 53, 155, 172, 210, 82, 151, 229, 123 >>,
      << 22, 230, 185, 118, 37, 251, 199, 38, 91, 171, 205, 252, 28, 31, 19, 151,
         162, 41, 165, 209, 176, 91, 208, 66, 63, 235, 174, 216, 28, 58, 96, 100 >>,
      << 45, 159, 171, 35, 29, 153, 65, 127, 177, 58, 79, 238, 231, 99, 134, 234,
         196, 206, 186, 112, 134, 121, 183, 2, 13, 77, 97, 39, 203, 83, 94, 245 >>,
      << 218, 48, 238, 139, 45, 183, 48, 38, 51, 216, 95, 213, 57, 225, 164, 164,
         35, 6, 27, 51, 251, 93, 251, 185, 202, 58, 140, 150, 241, 161, 252, 84 >>,
      << 64, 217, 54, 97, 89, 135, 109, 255, 75, 100, 138, 166, 75, 208, 6, 209,
         181, 6, 187, 22, 62, 142, 239, 227, 78, 27, 6, 29, 74, 17, 185, 230 >>,
      << 88, 169, 247, 104, 30, 71, 90, 99, 53, 233, 55, 8, 37, 187, 118, 163,
         50, 62, 193, 214, 90, 42, 238, 11, 36, 55, 214, 159, 32, 140, 83, 25 >>,
      << 221, 73, 247, 107, 144, 185, 35, 160, 63, 15, 66, 155, 16, 114, 130, 123,
         253, 210, 234, 140, 146, 82, 107, 3, 109, 44, 81, 86, 240, 254, 138, 238 >>,
      << 247, 208, 158, 29, 62, 165, 197, 137, 54, 163, 201, 75, 73, 20, 42, 129,
         253, 188, 246, 208, 74, 190, 143, 10, 224, 176, 128, 174, 12, 218, 38, 82 >>,
      << 127, 102, 61, 129, 45, 51, 184, 234, 35, 73, 28, 101, 208, 108, 102, 93,
         5, 244, 86, 168, 115, 87, 55, 101, 127, 76, 213, 138, 238, 124, 244, 211 >>,
      << 13, 210, 255, 67, 197, 77, 84, 51, 173, 191, 190, 194, 247, 124, 148, 145,
         5, 193, 251, 56, 153, 13, 164, 81, 122, 93, 130, 164, 228, 190, 34, 253 >>,
      << 6, 94, 111, 79, 204, 110, 140, 7, 118, 236, 104, 96, 135, 128, 64, 233,
         220, 42, 249, 107, 44, 13, 136, 21, 72, 54, 63, 56, 234, 22, 87, 205 >>,
      << 93, 69, 57, 151, 105, 120, 14, 104, 113, 163, 4, 164, 18, 39, 1, 189,
         100, 242, 245, 59, 97, 27, 47, 56, 255, 172, 65, 114, 156, 80, 48, 172 >>,
      << 184, 232, 252, 150, 43, 245, 204, 202, 108, 111, 115, 210, 128, 192, 219, 242,
         57, 34, 64, 113, 197, 157, 216, 151, 10, 185, 213, 66, 227, 65, 74, 178 >>,
      << 236, 174, 19, 62, 63, 86, 101, 108, 69, 163, 248, 197, 169, 14, 179, 134,
         96, 219, 142, 38, 157, 158, 130, 19, 12, 247, 136, 243, 76, 67, 100, 170 >>,
      << 211, 221, 82, 224, 46, 48, 150, 113, 216, 171, 98, 113, 161, 89, 171, 104,
         168, 141, 73, 102, 141, 224, 255, 205, 196, 173, 131, 74, 161, 50, 68, 159 >>,
      << 15, 186, 36, 246, 3, 171, 74, 137, 215, 26, 222, 208, 82, 79, 85, 128,
         25, 222, 239, 14, 59, 183, 51, 100, 49, 146, 145, 91, 65, 40, 213, 156 >>,
      << 7, 8, 80, 4, 65, 22, 210, 253, 150, 216, 56, 77, 184, 100, 59, 206,
         21, 58, 17, 43, 187, 64, 217, 32, 145, 69, 250, 233, 43, 150, 252, 89 >>,
      << 159, 181, 134, 209, 132, 26, 44, 168, 251, 187, 248, 159, 5, 57, 147, 166,
         228, 241, 95, 139, 143, 235, 46, 17, 249, 29, 118, 87, 54, 20, 214, 180 >>,
      << 245, 128, 85, 252, 76, 135, 232, 115, 71, 54, 191, 30, 119, 15, 85, 222,
         132, 200, 201, 76, 191, 255, 166, 12, 126, 122, 107, 60, 100, 175, 193, 110 >>,
      << 229, 31, 48, 181, 5, 29, 48, 213, 31, 156, 93, 206, 232, 68, 15, 7,
         177, 189, 130, 71, 229, 15, 236, 122, 62, 81, 200, 244, 58, 215, 123, 113 >>,
      << 11, 255, 151, 216, 61, 159, 191, 25, 4, 147, 3, 254, 125, 60, 66, 21,
         206, 189, 69, 38, 128, 211, 18, 8, 55, 14, 187, 14, 99, 200, 68, 87 >>,
      << 92, 42, 17, 19, 86, 123, 26, 58, 210, 245, 121, 74, 170, 103, 146, 153,
         164, 122, 5, 103, 70, 154, 236, 134, 170, 187, 253, 137, 178, 19, 208, 9 >>,
      << 184, 156, 217, 242, 139, 4, 116, 216, 64, 47, 73, 43, 253, 149, 250, 190,
         162, 60, 105, 54, 97, 57, 221, 85, 152, 168, 39, 212, 232, 86, 83, 53 >>,
      << 73, 82, 149, 210, 185, 49, 135, 241, 68, 8, 144, 227, 24, 169, 158, 90,
         112, 180, 229, 142, 168, 182, 67, 80, 56, 64, 187, 155, 30, 121, 119, 59 >>,
      << 206, 103, 70, 240, 145, 108, 122, 141, 132, 13, 42, 112, 60, 13, 187, 246,
         104, 93, 118, 134, 126, 119, 154, 131, 123, 22, 33, 210, 70, 202, 214, 52 >>,
      << 163, 69, 72, 47, 170, 4, 103, 62, 144, 205, 3, 144, 44, 119, 166, 241,
         17, 211, 89, 36, 99, 188, 253, 210, 54, 17, 63, 95, 233, 53, 168, 239 >>,
      << 66, 131, 65, 118, 120, 46, 242, 28, 248, 186, 180, 53, 130, 251, 178, 198,
         157, 64, 159, 241, 198, 142, 135, 221, 165, 102, 13, 226, 249, 20, 138, 32 >>,
      << 85, 210, 96, 83, 199, 30, 140, 232, 121, 98, 58, 31, 171, 229, 169, 181,
         50, 101, 224, 62, 138, 243, 228, 198, 72, 224, 183, 17, 141, 247, 152, 134 >>,
      << 1, 165, 208, 124, 184, 2, 156, 203, 219, 208, 111, 253, 5, 97, 9, 84,
         9, 201, 186, 251, 22, 172, 81, 237, 233, 175, 106, 246, 168, 214, 141, 67 >>,
      << 212, 83, 243, 129, 160, 114, 58, 109, 9, 142, 97, 222, 114, 77, 41, 88,
         74, 201, 117, 232, 236, 32, 120, 34, 255, 84, 216, 138, 3, 4, 56, 195 >>,
      << 243, 123, 137, 28, 100, 51, 182, 185, 26, 201, 135, 39, 59, 54, 95, 190,
         143, 141, 119, 39, 24, 162, 108, 173, 59, 78, 64, 196, 241, 216, 58, 175 >>,
      << 255, 235, 92, 115, 113, 39, 151, 22, 121, 227, 203, 249, 14, 243, 146, 120,
         153, 158, 160, 213, 41, 15, 33, 13, 47, 235, 207, 206, 171, 184, 134, 187 >>,
      << 182, 121, 245, 104, 208, 143, 134, 18, 246, 99, 118, 108, 248, 21, 99, 181,
         180, 11, 46, 173, 84, 155, 113, 1, 146, 240, 149, 44, 166, 75, 86, 128 >>,
      << 33, 12, 156, 21, 7, 3, 67, 242, 51, 106, 124, 158, 232, 62, 71, 148,
         99, 103, 136, 191, 52, 131, 3, 249, 136, 117, 251, 93, 237, 159, 26, 100 >>,
      << 136, 174, 69, 90, 117, 197, 161, 204, 164, 223, 94, 41, 171, 108, 72, 75,
         131, 3, 13, 115, 200, 242, 71, 107, 139, 131, 105, 34, 187, 89, 141, 118 >>,
      << 47, 82, 35, 39, 121, 239, 12, 52, 81, 108, 168, 195, 47, 76, 44, 209,
         214, 247, 133, 74, 236, 96, 29, 181, 227, 60, 163, 243, 251, 96, 10, 100 >>,
      << 59, 85, 123, 104, 202, 147, 99, 10, 165, 155, 254, 99, 197, 86, 95, 40,
         40, 63, 211, 38, 38, 118, 140, 90, 204, 92, 113, 187, 161, 76, 101, 44 >>,
      << 235, 143, 239, 111, 174, 67, 77, 185, 41, 194, 236, 113, 177, 155, 75, 119,
         146, 19, 197, 33, 119, 128, 81, 55, 104, 254, 230, 204, 229, 90, 150, 8 >>,
      << 96, 183, 137, 202, 162, 31, 55, 129, 236, 84, 42, 154, 145, 110, 36, 133,
         167, 118, 201, 123, 187, 205, 157, 107, 210, 183, 233, 74, 4, 152, 193, 177 >>,
      << 186, 122, 196, 126, 66, 33, 78, 125, 87, 156, 237, 53, 228, 169, 167, 10,
         53, 114, 220, 254, 126, 81, 113, 122, 151, 237, 157, 62, 122, 68, 17, 157 >>,
      << 233, 59, 4, 68, 103, 17, 213, 222, 71, 133, 67, 87, 82, 221, 71, 254,
         156, 217, 162, 177, 168, 56, 230, 5, 163, 221, 214, 62, 64, 67, 187, 188 >>,
      << 71, 127, 88, 100, 10, 111, 189, 243, 217, 90, 209, 191, 251, 88, 161, 200,
         114, 39, 214, 62, 12, 141, 72, 3, 108, 249, 215, 31, 178, 139, 90, 114 >>,
      << 168, 174, 0, 230, 127, 151, 84, 126, 7, 105, 253, 203, 23, 40, 204, 29,
         47, 78, 211, 32, 122, 225, 86, 144, 94, 169, 243, 94, 49, 65, 67, 186 >>,
      << 23, 127, 64, 252, 157, 0, 66, 172, 186, 46, 99, 17, 131, 146, 71, 198,
         135, 71, 38, 223, 2, 48, 139, 123, 252, 46, 205, 88, 168, 54, 156, 137 >>,
      << 22, 227, 175, 34, 147, 254, 65, 93, 143, 103, 149, 181, 218, 213, 107, 151,
         213, 44, 47, 69, 19, 147, 84, 210, 102, 172, 169, 94, 160, 10, 242, 135 >>,
      << 247, 28, 92, 37, 72, 34, 211, 249, 215, 86, 242, 184, 12, 200, 123, 151,
         89, 116, 51, 184, 12, 71, 20, 160, 20, 163, 91, 165, 20, 64, 135, 166 >>,
      << 144, 24, 26, 45, 184, 137, 33, 178, 132, 237, 175, 112, 85, 137, 249, 92,
         62, 228, 47, 85, 63, 222, 51, 197, 145, 213, 49, 210, 219, 197, 192, 189 >>,
      << 19, 38, 179, 128, 150, 194, 131, 73, 222, 146, 5, 244, 173, 180, 214, 203,
         232, 76, 122, 112, 188, 73, 170, 109, 252, 143, 84, 81, 188, 18, 50, 144 >>,
      << 13, 62, 120, 203, 206, 76, 189, 19, 53, 126, 111, 142, 231, 99, 235, 119,
         90, 66, 180, 228, 178, 194, 73, 134, 217, 103, 232, 136, 104, 202, 202, 103 >>,
      << 92, 147, 148, 203, 47, 6, 153, 216, 60, 114, 159, 190, 114, 180, 195, 209,
         9, 79, 219, 35, 98, 137, 174, 123, 38, 48, 152, 66, 135, 98, 102, 140 >>,
      << 21, 123, 102, 57, 24, 98, 86, 248, 41, 124, 182, 120, 4, 173, 7, 33,
         217, 182, 86, 14, 105, 235, 214, 0, 203, 49, 115, 194, 57, 13, 213, 29 >>,
      << 226, 1, 29, 124, 207, 148, 120, 186, 104, 207, 68, 34, 164, 251, 27, 183,
         244, 207, 98, 249, 163, 125, 21, 210, 118, 80, 136, 109, 8, 174, 156, 192 >>,
      << 175, 156, 250, 194, 131, 146, 109, 216, 64, 32, 150, 27, 53, 13, 66, 168,
         219, 255, 21, 106, 58, 212, 91, 62, 33, 242, 254, 38, 110, 250, 132, 118 >>,
      << 93, 73, 238, 6, 40, 34, 180, 226, 102, 22, 176, 184, 135, 108, 250, 25,
         174, 16, 236, 73, 82, 195, 103, 9, 147, 175, 104, 178, 83, 63, 36, 37 >>,
      << 48, 89, 26, 84, 128, 212, 139, 200, 244, 245, 5, 29, 11, 90, 106, 238,
         42, 232, 111, 22, 90, 82, 243, 168, 15, 214, 140, 162, 55, 118, 24, 12 >>,
      << 102, 239, 234, 34, 109, 37, 137, 173, 184, 208, 158, 26, 19, 134, 194, 90,
         234, 56, 234, 188, 167, 119, 152, 123, 170, 16, 141, 133, 143, 69, 9, 19 >>,
      << 209, 247, 220, 153, 80, 5, 226, 8, 11, 230, 114, 71, 62, 68, 254, 199,
         151, 15, 84, 22, 95, 1, 201, 225, 154, 103, 250, 90, 17, 170, 129, 115 >>,
      << 164, 221, 31, 178, 121, 6, 219, 27, 128, 212, 127, 12, 51, 91, 37, 76,
         124, 146, 253, 207, 32, 17, 11, 86, 44, 92, 67, 186, 174, 99, 40, 70 >>,
      << 123, 33, 160, 132, 112, 96, 245, 143, 207, 38, 255, 180, 193, 28, 62, 10,
         55, 107, 221, 218, 117, 86, 232, 232, 154, 150, 128, 125, 5, 142, 191, 105 >>,
      << 173, 195, 109, 23, 68, 198, 204, 189, 82, 21, 142, 44, 31, 233, 183, 57,
         163, 86, 49, 76, 10, 63, 183, 141, 12, 233, 6, 73, 177, 18, 119, 147 >>,
      << 101, 153, 243, 81, 37, 173, 196, 133, 216, 222, 77, 176, 104, 166, 238, 221,
         122, 137, 4, 38, 159, 220, 160, 149, 130, 121, 188, 165, 186, 86, 114, 79 >>,
      << 105, 212, 254, 66, 109, 81, 75, 237, 210, 42, 137, 174, 217, 166, 200, 121,
         185, 122, 202, 254, 16, 160, 187, 73, 169, 155, 140, 188, 148, 221, 139, 111 >>,
      << 52, 179, 183, 10, 26, 125, 76, 239, 210, 59, 167, 110, 113, 183, 29, 201,
         227, 97, 160, 201, 179, 168, 204, 200, 133, 230, 58, 156, 23, 96, 148, 57 >>,
      << 21, 232, 120, 132, 142, 34, 87, 220, 93, 178, 36, 203, 92, 179, 94, 132,
         170, 216, 92, 71, 209, 97, 189, 213, 202, 154, 157, 85, 143, 157, 129, 128 >>,
      << 167, 191, 33, 38, 88, 128, 157, 75, 135, 17, 247, 186, 126, 100, 28, 31,
         89, 174, 70, 42, 46, 10, 222, 110, 236, 169, 239, 216, 161, 195, 31, 230 >>,
      << 224, 133, 254, 23, 84, 138, 152, 150, 190, 109, 53, 253, 151, 90, 65, 224,
         84, 22, 192, 226, 60, 234, 144, 168, 225, 100, 56, 44, 215, 145, 124, 60 >>,
      << 110, 19, 252, 69, 174, 219, 125, 163, 87, 117, 206, 52, 142, 201, 226, 186,
         187, 200, 25, 216, 206, 45, 89, 209, 117, 108, 52, 90, 170, 161, 27, 52 >>,
      << 243, 72, 241, 109, 252, 152, 163, 198, 53, 205, 194, 184, 90, 158, 42, 181,
         236, 160, 170, 186, 166, 56, 166, 208, 172, 181, 254, 217, 116, 82, 110, 71 >>,
      << 5, 247, 250, 218, 200, 202, 188, 196, 122, 246, 193, 254, 164, 173, 250, 85,
         40, 174, 171, 151, 122, 35, 193, 102, 57, 1, 5, 149, 223, 65, 222, 168 >>,
      << 30, 191, 134, 199, 177, 190, 236, 8, 27, 16, 121, 181, 20, 203, 26, 177,
         208, 27, 175, 203, 156, 78, 97, 56, 192, 162, 6, 122, 72, 52, 125, 124 >>,
      << 194, 166, 124, 109, 213, 147, 158, 28, 32, 144, 196, 78, 176, 234, 105, 28,
         90, 38, 166, 171, 177, 31, 140, 5, 110, 208, 80, 27, 179, 113, 185, 92 >>,
      << 114, 166, 185, 142, 96, 247, 36, 234, 142, 154, 204, 109, 205, 121, 247, 218,
         88, 112, 233, 237, 237, 161, 224, 96, 171, 136, 36, 31, 96, 236, 227, 172 >>,
      << 101, 149, 150, 138, 59, 175, 14, 152, 83, 37, 11, 117, 131, 250, 108, 247,
         190, 170, 132, 60, 60, 19, 16, 175, 135, 111, 99, 38, 63, 155, 186, 9 >>,
      << 99, 12, 30, 26, 177, 41, 126, 61, 169, 17, 94, 121, 150, 137, 190, 237,
         42, 80, 198, 208, 51, 187, 28, 78, 114, 221, 231, 199, 135, 251, 149, 48 >>,
      << 224, 233, 109, 162, 46, 67, 109, 221, 175, 82, 69, 52, 204, 14, 246, 130,
         179, 150, 163, 247, 219, 99, 73, 255, 109, 233, 224, 90, 102, 37, 2, 141 >>,
      << 158, 207, 5, 124, 42, 60, 84, 98, 217, 45, 105, 228, 172, 192, 151, 195,
         54, 67, 99, 174, 204, 104, 210, 139, 78, 212, 5, 231, 137, 16, 217, 120 >>,
      << 4, 166, 96, 190, 51, 63, 148, 127, 10, 87, 32, 160, 101, 238, 168, 157,
         230, 233, 180, 71, 124, 160, 223, 118, 99, 35, 90, 106, 221, 14, 161, 22 >>,
      << 111, 166, 241, 34, 73, 40, 187, 55, 153, 83, 12, 77, 110, 22, 175, 39,
         195, 189, 230, 148, 115, 131, 22, 178, 101, 90, 173, 177, 67, 122, 222, 57 >>,
      << 44, 83, 76, 4, 116, 215, 35, 238, 207, 16, 53, 54, 198, 108, 229, 201,
         157, 24, 139, 48, 218, 14, 235, 26, 180, 115, 170, 12, 80, 91, 7, 217 >>,
      << 255, 33, 145, 133, 250, 148, 194, 210, 98, 169, 232, 139, 161, 47, 28, 235,
         43, 11, 218, 52, 74, 27, 54, 64, 172, 30, 124, 25, 64, 254, 150, 28 >>,
      << 253, 177, 2, 164, 247, 45, 179, 218, 232, 131, 126, 211, 43, 185, 80, 138,
         162, 140, 167, 254, 136, 4, 26, 66, 9, 8, 216, 27, 140, 20, 22, 70 >>,
      << 76, 73, 253, 27, 145, 161, 222, 60, 196, 83, 202, 130, 179, 121, 240, 83,
         136, 95, 140, 47, 182, 70, 132, 206, 245, 174, 35, 121, 113, 176, 56, 185 >>,
      << 99, 61, 191, 7, 180, 241, 88, 43, 212, 246, 245, 4, 56, 223, 236, 189,
         0, 54, 160, 25, 118, 67, 195, 51, 18, 238, 191, 200, 236, 151, 26, 103 >>,
      << 67, 46, 164, 187, 144, 92, 197, 178, 248, 249, 10, 47, 11, 29, 165, 45,
         131, 61, 103, 91, 40, 214, 170, 25, 125, 123, 43, 16, 17, 77, 42, 20 >>,
      << 70, 27, 179, 69, 211, 237, 121, 251, 65, 160, 231, 165, 122, 129, 38, 7,
         216, 66, 45, 13, 120, 58, 52, 230, 26, 92, 89, 89, 173, 77, 136, 139 >>,
      << 117, 85, 73, 58, 188, 105, 227, 190, 56, 22, 37, 195, 227, 59, 146, 148,
         44, 213, 68, 92, 74, 22, 4, 199, 126, 62, 217, 95, 225, 217, 71, 148 >>,
      << 132, 9, 60, 153, 35, 41, 90, 44, 79, 201, 37, 189, 195, 217, 250, 232,
         232, 139, 78, 222, 115, 12, 76, 89, 45, 1, 137, 252, 155, 223, 31, 13 >>,
      << 165, 221, 231, 27, 71, 106, 163, 163, 32, 239, 88, 251, 17, 32, 167, 255,
         197, 189, 192, 252, 138, 136, 163, 119, 175, 144, 180, 113, 146, 243, 16, 255 >>,
      << 160, 70, 189, 248, 11, 36, 116, 96, 120, 29, 116, 31, 152, 171, 3, 41,
         201, 218, 178, 61, 62, 5, 212, 153, 59, 158, 194, 45, 148, 18, 228, 65 >>,
      << 90, 88, 127, 231, 34, 154, 57, 16, 214, 160, 252, 154, 109, 126, 214, 74,
         179, 248, 0, 108, 69, 216, 245, 15, 157, 30, 254, 213, 112, 43, 211, 182 >>,
      << 175, 193, 140, 89, 210, 203, 80, 227, 202, 72, 68, 107, 151, 32, 80, 120,
         57, 239, 69, 225, 255, 235, 198, 250, 35, 141, 145, 233, 17, 0, 245, 182 >>,
      << 67, 184, 49, 119, 23, 226, 227, 176, 130, 152, 159, 9, 1, 92, 156, 57,
         239, 177, 61, 153, 183, 211, 35, 70, 179, 22, 174, 145, 152, 207, 132, 159 >>,
      << 7, 196, 132, 188, 207, 102, 31, 178, 21, 88, 132, 208, 68, 8, 188, 207,
         207, 176, 10, 238, 108, 55, 45, 184, 56, 200, 42, 190, 20, 0, 239, 229 >>,
      << 149, 250, 240, 236, 20, 122, 235, 53, 171, 37, 42, 157, 104, 33, 14, 165,
         58, 249, 108, 4, 106, 237, 55, 26, 174, 78, 53, 246, 202, 194, 129, 124 >>,
      << 32, 149, 116, 38, 8, 49, 86, 65, 226, 182, 157, 2, 70, 191, 53, 25,
         175, 82, 193, 178, 100, 224, 202, 37, 207, 167, 157, 236, 88, 231, 247, 6 >>,
      << 118, 213, 209, 154, 173, 239, 125, 3, 149, 100, 115, 75, 139, 147, 110, 143,
         73, 254, 200, 204, 148, 166, 91, 129, 238, 203, 90, 189, 204, 109, 223, 65 >>,
      << 40, 31, 123, 123, 194, 178, 106, 115, 68, 175, 118, 190, 56, 104, 194, 102,
         35, 11, 166, 102, 51, 132, 129, 177, 84, 227, 107, 55, 242, 195, 105, 19 >>,
      << 63, 162, 217, 69, 243, 146, 174, 19, 241, 110, 133, 199, 236, 147, 147, 174,
         29, 19, 62, 176, 233, 42, 195, 16, 155, 146, 42, 215, 223, 76, 113, 150 >>,
      << 233, 194, 100, 152, 124, 52, 150, 25, 106, 230, 175, 121, 141, 253, 114, 17,
         152, 25, 208, 200, 8, 43, 176, 3, 60, 220, 55, 142, 228, 79, 220, 113 >>,
      << 88, 206, 155, 187, 238, 77, 164, 142, 78, 194, 10, 148, 199, 79, 199, 81,
         241, 133, 79, 176, 160, 8, 34, 125, 114, 107, 35, 209, 81, 116, 165, 39 >>,
      << 149, 169, 246, 39, 195, 194, 51, 224, 31, 71, 198, 93, 164, 176, 53, 135,
         123, 141, 61, 67, 251, 224, 38, 5, 16, 2, 71, 57, 77, 108, 38, 93 >>,
      << 17, 249, 239, 177, 115, 123, 181, 50, 7, 211, 196, 213, 47, 167, 63, 81,
         149, 212, 148, 193, 58, 208, 169, 234, 151, 85, 128, 8, 31, 255, 99, 206 >>,
      << 102, 131, 186, 144, 147, 254, 26, 167, 87, 34, 124, 121, 150, 217, 171, 34,
         167, 212, 55, 174, 4, 37, 164, 41, 24, 242, 161, 170, 67, 96, 186, 125 >>,
      << 22, 116, 227, 189, 106, 15, 107, 20, 255, 159, 43, 103, 60, 164, 56, 36,
         118, 244, 180, 99, 227, 237, 40, 103, 56, 44, 66, 58, 242, 197, 65, 66 >>,
      << 80, 11, 46, 86, 227, 143, 163, 220, 174, 173, 88, 49, 177, 23, 130, 139,
         133, 44, 110, 85, 211, 64, 175, 71, 95, 222, 20, 44, 158, 237, 162, 59 >>,
      << 106, 208, 205, 237, 56, 60, 191, 43, 26, 11, 160, 129, 249, 196, 92, 101,
         12, 203, 255, 146, 175, 60, 186, 21, 238, 195, 46, 9, 237, 59, 78, 136 >>,
      << 0, 234, 161, 89, 61, 18, 193, 177, 165, 198, 226, 185, 204, 137, 18, 209,
         147, 17, 11, 2, 43, 52, 10, 197, 22, 126, 212, 6, 24, 47, 67, 109 >>,
      << 192, 8, 127, 247, 104, 123, 68, 154, 241, 216, 247, 101, 181, 148, 153, 1,
         204, 222, 3, 161, 113, 105, 246, 176, 18, 95, 166, 122, 228, 168, 18, 252 >>,
      << 201, 117, 118, 31, 58, 48, 197, 53, 196, 14, 246, 186, 63, 169, 217, 0,
         4, 73, 65, 218, 135, 243, 11, 44, 163, 99, 124, 100, 116, 228, 74, 49 >>,
      << 68, 171, 103, 37, 150, 103, 230, 75, 202, 45, 95, 183, 41, 204, 109, 112,
         229, 140, 228, 240, 254, 154, 34, 16, 218, 88, 19, 255, 23, 50, 188, 36 >>,
      << 55, 48, 5, 7, 7, 35, 18, 19, 121, 43, 22, 33, 130, 67, 86, 157,
         175, 229, 123, 43, 64, 192, 121, 199, 165, 32, 204, 208, 50, 210, 56, 68 >>,
      << 70, 99, 99, 4, 71, 196, 57, 107, 73, 35, 129, 170, 52, 129, 178, 232,
         212, 18, 228, 68, 224, 51, 128, 198, 164, 27, 138, 147, 232, 159, 209, 11 >>,
      << 236, 178, 91, 168, 237, 18, 48, 108, 239, 40, 160, 242, 132, 37, 1, 178,
         18, 133, 226, 236, 245, 226, 206, 74, 253, 46, 121, 6, 41, 63, 240, 184 >>,
      << 243, 190, 133, 220, 120, 49, 178, 97, 241, 208, 121, 146, 194, 211, 8, 213,
         67, 139, 126, 168, 17, 59, 3, 122, 59, 229, 18, 166, 231, 99, 44, 224 >>,
      << 249, 101, 84, 32, 100, 22, 60, 207, 59, 189, 219, 195, 88, 153, 64, 239,
         201, 243, 46, 68, 188, 173, 49, 183, 10, 236, 47, 225, 94, 105, 255, 69 >>,
      << 7, 17, 128, 195, 142, 247, 104, 249, 161, 144, 230, 9, 173, 34, 231, 178,
         125, 209, 255, 96, 213, 245, 254, 187, 133, 184, 75, 205, 179, 205, 246, 227 >>,
      << 5, 157, 65, 112, 215, 251, 187, 38, 19, 112, 89, 18, 136, 139, 184, 104,
         121, 62, 205, 236, 198, 57, 194, 150, 64, 41, 76, 240, 59, 77, 61, 80 >>,
      << 97, 100, 203, 216, 195, 146, 220, 204, 165, 68, 171, 151, 186, 177, 100, 209,
         93, 227, 103, 20, 107, 241, 115, 34, 40, 41, 11, 150, 99, 193, 107, 251 >>,
      << 47, 226, 198, 54, 190, 88, 153, 82, 98, 191, 92, 67, 86, 46, 72, 26,
         47, 86, 98, 162, 85, 131, 220, 132, 168, 125, 221, 165, 145, 31, 45, 127 >>,
      << 64, 132, 1, 95, 189, 131, 183, 9, 47, 198, 95, 202, 170, 116, 157, 34,
         122, 120, 6, 92, 163, 55, 91, 235, 55, 235, 144, 180, 1, 100, 244, 248 >>,
      << 170, 197, 114, 252, 14, 70, 137, 70, 191, 145, 144, 166, 57, 197, 33, 9,
         7, 2, 250, 139, 182, 61, 0, 32, 35, 255, 95, 238, 109, 241, 248, 143 >>,
      << 143, 114, 195, 40, 67, 218, 54, 48, 38, 194, 61, 64, 163, 59, 93, 160,
         31, 103, 231, 16, 246, 50, 54, 167, 164, 114, 87, 118, 32, 29, 82, 85 >>,
      << 113, 207, 135, 188, 78, 238, 196, 20, 193, 206, 21, 225, 54, 13, 168, 51,
         57, 235, 183, 180, 55, 4, 125, 44, 133, 86, 251, 60, 78, 211, 45, 233 >>,
      << 61, 152, 61, 22, 137, 66, 57, 234, 30, 207, 67, 160, 1, 77, 99, 121,
         116, 37, 200, 89, 185, 58, 192, 143, 193, 18, 201, 125, 20, 115, 128, 54 >>,
      << 46, 138, 40, 205, 24, 194, 59, 253, 2, 77, 253, 177, 52, 15, 136, 81,
         34, 86, 107, 85, 12, 136, 198, 200, 74, 29, 74, 145, 8, 162, 160, 112 >>,
      << 23, 33, 234, 87, 188, 164, 12, 219, 133, 191, 101, 177, 227, 125, 112, 165,
         253, 59, 4, 140, 76, 69, 40, 161, 188, 194, 224, 37, 112, 120, 237, 158 >>,
      << 103, 52, 104, 225, 83, 134, 221, 49, 184, 100, 19, 205, 251, 210, 183, 116,
         164, 147, 105, 200, 206, 26, 192, 188, 109, 216, 252, 11, 21, 148, 54, 206 >>,
      << 10, 126, 190, 163, 53, 98, 68, 111, 16, 141, 211, 48, 166, 124, 252, 88,
         183, 176, 227, 139, 9, 17, 62, 189, 88, 57, 4, 220, 208, 228, 107, 63 >>,
      << 89, 108, 1, 227, 216, 49, 47, 217, 144, 165, 41, 108, 196, 46, 158, 170,
         77, 44, 165, 183, 34, 75, 28, 193, 253, 183, 133, 72, 144, 148, 89, 189 >>,
      << 51, 153, 83, 226, 192, 247, 28, 109, 70, 240, 98, 179, 225, 136, 178, 0,
         137, 52, 197, 115, 102, 128, 227, 178, 210, 215, 146, 37, 190, 95, 171, 27 >>,
      << 133, 161, 165, 234, 13, 74, 178, 25, 166, 122, 137, 109, 229, 38, 72, 18,
         149, 85, 114, 63, 95, 210, 184, 146, 27, 243, 194, 200, 70, 39, 196, 43 >>,
      << 149, 96, 221, 198, 98, 38, 216, 110, 207, 97, 176, 171, 24, 144, 167, 125,
         226, 8, 144, 152, 45, 223, 215, 77, 5, 47, 2, 196, 234, 165, 250, 138 >>,
      << 244, 105, 47, 56, 165, 62, 239, 195, 115, 199, 154, 224, 77, 95, 244, 30,
         255, 118, 52, 101, 203, 146, 214, 75, 153, 105, 68, 11, 176, 29, 66, 92 >>,
      << 125, 56, 219, 130, 239, 1, 112, 235, 232, 209, 210, 58, 72, 60, 108, 178,
         159, 160, 141, 76, 222, 41, 183, 28, 8, 22, 147, 200, 134, 123, 204, 96 >>,
      << 230, 2, 193, 99, 251, 29, 178, 171, 115, 82, 89, 136, 203, 167, 0, 3,
         131, 219, 187, 159, 173, 36, 8, 19, 184, 90, 240, 50, 205, 238, 214, 42 >>,
      << 249, 17, 230, 49, 79, 125, 131, 24, 72, 124, 144, 23, 153, 7, 142, 72,
         159, 137, 212, 179, 30, 248, 40, 54, 11, 199, 242, 111, 228, 96, 52, 63 >>,
      << 179, 99, 28, 138, 235, 145, 213, 117, 201, 227, 89, 26, 68, 37, 21, 59,
         41, 29, 104, 174, 213, 245, 125, 154, 143, 12, 144, 228, 120, 43, 120, 240 >>,
      << 213, 120, 28, 19, 136, 88, 191, 15, 202, 137, 28, 146, 40, 215, 96, 77,
         43, 84, 177, 241, 35, 118, 147, 185, 44, 37, 138, 22, 106, 140, 117, 199 >>,
      << 203, 134, 114, 147, 111, 68, 245, 171, 71, 187, 114, 137, 51, 250, 64, 181,
         70, 181, 131, 46, 123, 142, 221, 225, 243, 11, 74, 83, 213, 1, 71, 206 >>,
      << 143, 114, 183, 146, 20, 22, 46, 76, 102, 101, 37, 112, 250, 147, 193, 148,
         47, 102, 34, 105, 11, 176, 231, 16, 120, 164, 194, 128, 172, 30, 172, 23 >>,
      << 153, 3, 223, 115, 10, 247, 88, 113, 209, 218, 229, 103, 51, 87, 16, 172,
         241, 85, 241, 21, 208, 172, 2, 73, 178, 168, 72, 34, 227, 224, 108, 166 >>,
      << 235, 4, 122, 112, 90, 22, 167, 46, 91, 81, 65, 53, 172, 130, 168, 79,
         232, 33, 188, 203, 66, 241, 245, 236, 226, 177, 7, 177, 21, 60, 239, 61 >>,
      << 143, 23, 112, 42, 239, 233, 59, 213, 152, 234, 159, 73, 248, 188, 28, 127,
         96, 144, 169, 85, 6, 102, 186, 128, 123, 102, 48, 69, 117, 232, 34, 216 >>,
      << 189, 69, 87, 114, 140, 253, 132, 39, 229, 24, 208, 192, 182, 94, 62, 170,
         103, 167, 36, 34, 154, 106, 191, 163, 73, 41, 119, 67, 98, 52, 100, 206 >>,
      << 12, 146, 20, 84, 228, 233, 192, 166, 27, 14, 151, 48, 193, 44, 234, 24,
         244, 37, 97, 90, 186, 20, 117, 223, 143, 38, 48, 239, 75, 198, 145, 210 >>,
      << 3, 33, 182, 193, 33, 5, 172, 61, 123, 64, 199, 243, 157, 228, 232, 49,
         56, 134, 14, 72, 199, 140, 251, 184, 225, 16, 252, 129, 249, 222, 105, 76 >>,
      << 40, 13, 98, 158, 11, 77, 107, 152, 57, 167, 186, 26, 177, 122, 45, 42,
         124, 193, 124, 234, 250, 85, 211, 219, 226, 199, 228, 53, 2, 63, 152, 227 >>,
      << 170, 163, 61, 50, 177, 107, 234, 99, 231, 217, 189, 33, 140, 56, 233, 16,
         179, 217, 144, 111, 156, 33, 44, 67, 52, 10, 220, 238, 240, 225, 232, 47 >>,
      << 128, 71, 203, 106, 179, 61, 130, 92, 82, 117, 141, 214, 27, 116, 58, 187,
         108, 170, 111, 140, 138, 166, 128, 132, 249, 139, 139, 141, 97, 119, 67, 172 >> >> )

\* whether the table above agrees with sha3_256 at the message head \o << last >>
KnownLastByteDigestAgrees(head, last) ==
  KnownLastByteDigests[head][last + 1] = sha3_256(head \o << last >>)

\* the digest of a 64-byte message from the table of last bytes, or else
\* sha3_256 computed
LastByteDigest(m) ==
  IF Len(m) = 64 /\ Slice(m, 1, 63) \in DOMAIN KnownLastByteDigests
  THEN KnownLastByteDigests[Slice(m, 1, 63)][byte_at(m, 64) + 1]
  ELSE sha3_256(m)

\* Keccak-256 of a message
Keccak256(m) == Known(KnownDigests, m, LastByteDigest(m))

\* ------------------------------------------------------------------------
\* Inputs the calls are made with
\* ------------------------------------------------------------------------
K_Zero == Fill(32, 0)
K_One == SetByte(Fill(32, 0), 32, 1)
K_Two == SetByte(Fill(32, 0), 32, 2)
K_256 == SetByte(Fill(32, 0), 31, 1)
K_Top == SetByte(Fill(32, 0), 1, 128)
K_NMinus1 == SetByte(SECP256K1_N, 32, 64)
K_N == SECP256K1_N
K_NPlus1 == SetByte(SECP256K1_N, 32, 66)
K_Max == Fill(32, 255)
\* below N: first byte lowered, last byte raised
K_HiDown == SetByte(SetByte(SECP256K1_N, 1, 254), 32, 255)
\* above N: byte 16 raised, every later byte zero
K_MidUp == [i \in 1..32 |-> IF i < 16 THEN 255 ELSE IF i = 16 THEN 255 ELSE 0]
\* below N: byte 17 lowered, every later byte 255
K_MidDown == [i \in 1..32 |-> IF i < 17 THEN SECP256K1_N[i]
                              ELSE IF i = 17 THEN 185 ELSE 255]

\* the seed of the first test vector of RFC 8032
K_Rfc8032 ==
  << 157, 97, 177, 157, 239, 253, 90, 96, 186, 132, 74, 244, 146, 236, 44, 196,
     68, 73, 197, 105, 123, 50, 105, 25, 112, 59, 172, 3, 28, 174, 127, 96 >>

PrivateKeys32 ==
  { K_Zero, K_One, K_Two, K_256, K_Top, K_NMinus1, K_N, K_NPlus1, K_Max,
    K_HiDown, K_MidUp, K_MidDown, K_Rfc8032 }

\* hex digit of a nibble, lower or upper case
HexDigit(v, upper) ==
  IF v < 10 THEN 48 + v ELSE IF upper THEN 65 + v - 10 ELSE 97 + v - 10

HexEncode(bytes, upper) ==
  [i \in 1..(2 * Len(bytes)) |->
     IF i % 2 = 1 THEN HexDigit(bytes[(i + 1) \div 2] \div 16, upper)
     ELSE HexDigit(bytes[i \div 2] % 16, upper)]

\* private keys as the caller passes them: tagged by JavaScript type
\* (val: characters, bytes, or the digits of a bigint's magnitude; neg: its sign)
HexInput(h) == [type |-> "string", val |-> h, neg |-> FALSE]
BytesInput(b) == [type |-> "Uint8Array", val |-> b, neg |-> FALSE]
BigintInput(neg, mag) == [type |-> "bigint", val |-> mag, neg |-> neg]

\* magnitude of a bigint: big-endian base-256 digits without leading zeros
RECURSIVE StripLeadingZeros(_)
StripLeadingZeros(s) ==
  IF Len(s) = 0 THEN s
  ELSE IF s[1] = 0 THEN StripLeadingZeros(Tail(s)) ELSE s

BadHexStrings ==
  { HexEncode(Fill(4, 222), FALSE),                       \* too short
    HexEncode(Fill(33, 17), FALSE),                       \* too long
    SetByte(HexEncode(K_One, FALSE), 10, 103),            \* 'g' inside
    Tail(HexEncode(K_One, FALSE)),                        \* odd length
    << 48, 120 >> \o HexEncode(K_One, FALSE),             \* 0x prefix
    << 48, 88 >> \o HexEncode(K_MidDown, TRUE),           \* 0X prefix
    SetByte(SetByte(HexEncode(K_One, FALSE), 1, 48), 2, 120), \* 0x, 64 long
    SetByte(HexEncode(K_One, FALSE), 64, 233),            \* 64 characters, 65 bytes
    SubSeq(HexEncode(K_One, FALSE), 1, 62) \o << 233 >> } \* 63 characters, 64 bytes

\* values that are neither a string, a bigint nor a Uint8Array; the
\* containers hold the 32 bytes of a valid key
OtherTypes ==
  { "number", "boolean", "null", "undefined", "object", "Array", "ArrayBuffer",
    "Uint16Array" }

OtherInput(ty) ==
  [type |-> ty,
   val |-> IF ty \in { "Array", "ArrayBuffer", "Uint16Array" } THEN K_One ELSE << >>,
   neg |-> FALSE]

PrivateKeyInputs ==
  { HexInput(HexEncode(k, FALSE)) : k \in PrivateKeys32 }
  \cup { HexInput(HexEncode(k, TRUE)) : k \in {K_NMinus1, K_N, K_MidDown} }
  \cup { HexInput(h) : h \in BadHexStrings }
  \cup { BytesInput(k) : k \in PrivateKeys32 }
  \cup { BytesInput(Fill(31, 1)), BytesInput(Fill(33, 1)), BytesInput(<< >>) }
  \cup { BigintInput(FALSE, StripLeadingZeros(k)) : k \in PrivateKeys32 }
  \cup { BigintInput(TRUE, << 1 >>), BigintInput(FALSE, << 1 >> \o Fill(32, 0)),
         BigintInput(TRUE, K_Max) }
  \cup { OtherInput(ty) : ty \in OtherTypes }

\* public keys handed to pubToAddress
Ser(k, compressed) == secp256k1_ec_pubkey_serialize(PointOf(k), compressed).output

PubKeyScalars == { K_One, K_NMinus1, K_MidDown }

\* keys of the repository's tests: a compressed key and a 65-byte SEC1 key
PK_CompressedTest == << 2 >> \o Fill(32, 18)

PK_Sec1Test ==
  << 4, 58, 68, 61, 131, 129, 166, 121, 138, 112, 198, 255, 147, 4, 189, 200,
     203, 1, 99, 194, 50, 17, 209, 22, 40, 250, 229, 46, 249, 224, 220, 161,
     26, 0, 28, 240, 102, 213, 106, 129, 86, 252, 32, 28, 213, 223, 138, 54,
     239, 105, 78, 236, 210, 88, 144, 63, 202, 112, 134, 193, 250, 231, 68, 30,
     29 >>

PubKeyInputs ==
  { Ser(k, TRUE) : k \in PubKeyScalars }
  \cup { Ser(k, FALSE) : k \in PubKeyScalars }
  \cup { Tail(Ser(k, FALSE)) : k \in PubKeyScalars }              \* raw 64
  \cup { Fill(64, 0), Fill(64, 255) }
  \cup { Fill(n, 18) : n \in {0, 1, 31, 32, 35, 63, 66, 67, 100} }
  \cup { Fill(33, 18), Fill(65, 18) }
  \cup { PK_CompressedTest, PK_Sec1Test }
  \cup { SetByte(Ser(K_One, TRUE), 1, 4),     \* 33 bytes, prefix 04
         SetByte(Ser(K_One, TRUE), 1, 5),     \* 33 bytes, bad prefix
         SetByte(Ser(K_One, TRUE), 6, 0),     \* 33 bytes, no point has this x
         << 2 >> \o Fill(32, 255),             \* 33 bytes, x not below p
         SetByte(Ser(K_One, TRUE), 1, 5 - Ser(K_One, TRUE)[1]), \* other parity
         SetByte(Ser(K_One, FALSE), 1, 2),    \* 65 bytes starting with 02
         SetByte(Ser(K_One, FALSE), 1, 6 + (PointOf(K_One).y[32] % 2)), \* hybrid
         SetByte(Ser(K_One, FALSE), 1, 7 - (PointOf(K_One).y[32] % 2)), \* hybrid, wrong parity
         SetByte(Ser(K_One, FALSE), 40, 0),   \* 65 bytes, not on the curve
         Ser(K_One, FALSE) \o << 0 >>,        \* valid key with a trailing byte
         Slice(Ser(K_One, FALSE), 1, 64) }    \* 64 bytes starting with 04

\* data handed to keccak256: strings (as code points), and the UTF-8 bytes
\* of each of them in the three byte containers
S_Empty == << >>
S_Hello == << 104, 101, 108, 108, 111 >>
S_DeadBeef == << 100, 101, 97, 100, 98, 101, 101, 102 >>
S_DeadBeefUpper == << 68, 69, 65, 68, 66, 69, 69, 70 >>
S_Prefixed == << 48, 120, 49, 50, 51, 52 >>
S_Abc == << 97, 98, 99 >>
S_NonAscii == << 72, 233, 8364, 19990 >>

KeccakStrings ==
  { S_Empty, S_Hello, S_DeadBeef, S_DeadBeefUpper, S_Prefixed, S_Abc, S_NonAscii }

\* the UTF-8 bytes of the strings above, as the tests write them down
Utf8Bytes ==
  { << >>, S_Hello, S_DeadBeef, S_DeadBeefUpper, S_Prefixed, S_Abc,
    << 72, 195, 169, 226, 130, 172, 228, 184, 150 >> }

\* arrays of numbers with elements at and beyond the ends of 0..255
NumberArrays ==
  { << 0, 255 >>, << 256 >>, << -1 >>, << 1, 2, 300 >>, << 0, 256, -1 >>, << 7, 511, 8 >> }

KeccakInputs ==
  { HexInput(str) : str \in KeccakStrings }
  \cup { [type |-> ty, val |-> b, neg |-> FALSE] :
            ty \in { "Uint8Array", "ArrayBuffer", "Array" }, b \in Utf8Bytes }
  \cup { [type |-> "Array", val |-> a, neg |-> FALSE] : a \in NumberArrays }
  \cup { OtherInput("number"), OtherInput("null") }

\* ------------------------------------------------------------------------
\* TypeScript layer (src/utils.ts, src/index.tsx)
\* ------------------------------------------------------------------------
\* comparison of two bigint magnitudes (digit sequences without leading zeros)
\* a comparison that takes equal magnitudes for smaller
MagGE_strict(a, b, i) ==
  \/ Len(a) > Len(b)
  \/ /\ Len(a) = Len(b)
     /\ \E j \in i..Len(a) : a[j] > b[j] /\ \A m \in i..(j - 1) : a[m] = b[m]

RECURSIVE MagGE(_, _, _)
MagGE(a, b, i) ==
  IF Len(a) # Len(b) THEN Len(a) > Len(b)
  ELSE IF i > Len(a) THEN TRUE
  ELSE IF a[i] # b[i] THEN a[i] > b[i]
  ELSE MagGE(a, b, i + 1)

\* a conversion that stores the low byte first
bigintPrivateKeyToBytes_littleEndian(num) ==
  IF num.neg /\ Len(num.mag) > 0 THEN
    [err |-> "Private key must be positive", bytes |-> << >>]
  ELSE IF Len(num.mag) = 0 THEN
    [err |-> "Private key cannot be zero", bytes |-> << >>]
  ELSE IF MagGE(num.mag, SECP256K1_N, 1) THEN
    [err |-> "Private key must be less than the secp256k1 curve order",
     bytes |-> << >>]
  ELSE
    [err |-> "",
     bytes |-> [i \in 1..32 |->
                  IF i <= Len(num.mag) THEN num.mag[Len(num.mag) - i + 1] ELSE 0]]

\* bigintPrivateKeyToBytes: the three range checks, then 32 big-endian bytes
\* produced from the low end (n & 0xff, n >> 8)
bigintPrivateKeyToBytes(num) ==
  IF num.neg /\ Len(num.mag) > 0 THEN
    [err |-> "Private key must be positive", bytes |-> << >>]
  ELSE IF Len(num.mag) = 0 THEN
    [err |-> "Private key cannot be zero", bytes |-> << >>]
  ELSE IF MagGE(num.mag, SECP256K1_N, 1) THEN
    [err |-> "Private key must be less than the secp256k1 curve order",
     bytes |-> << >>]
  ELSE
    [err |-> "",
     bytes |-> [i \in 1..32 |->
                  IF 32 - i < Len(num.mag)
                  THEN num.mag[Len(num.mag) - (32 - i)] ELSE 0]]

\* ------------------------------------------------------------------------
\* State
\* ------------------------------------------------------------------------
VARIABLES
  workload,     \* who calls: one thread with every input, or all threads
  createOk,     \* whether secp256k1_context_create yields a context
  serializeWrites, \* byte count secp256k1_ec_pubkey_serialize reports as
                \* written: the requested form's length, or fewer
  g_ctx_once,   \* std::once_flag of HybridNativeUtils.cpp
  g_ctx,        \* g_ctx of each translation unit: NULL or a context
  created,      \* number of secp256k1_context_create calls, per unit
  pc,           \* position of each thread in its call
  call,         \* the call a thread is executing and its arguments
  buf,          \* locals of the call: privateKeyBytes, pubkey, pubKeyBytes
  trace,        \* stages and library calls of the call, in program order
  ret,          \* what the call returned or threw
  ncalls,       \* calls started by each thread
  kept,         \* the uncompressed key a caller holds to pass on to
                \* pubToAddress (uncompressedPubKey of the README usage)
  sha           \* a SHA-512 / HMAC-SHA512 computation of hmac_sha512.c: its
                \* sha512_ctx, what was fed to it and what it produced

vars == << workload, createOk, serializeWrites, g_ctx_once, g_ctx, created, pc, call, buf, trace, ret, ncalls, kept, sha >>

Impls == { "NativeUtils", "Nitro" }

NoPoint == [x |-> << >>, y |-> << >>]
NoCall == [impl |-> "none", op |-> "none", input |-> [type |-> "none", val |-> << >>, neg |-> FALSE],
           given |-> "omitted", flag |-> FALSE, env |-> "unread"]
NoBuf == [privateKeyBytes |-> << >>, pubkey |-> NoPoint, pubKeyBytes |-> << >>]
\* no sha512_ctx exists outside a computation
NoCtx == [h |-> << >>, length |-> 0, curlen |-> 0, buf |-> << >>, blocks |-> << >>, top |-> -1]
NoSha == [pc |-> "idle", op |-> "none", ctx |-> NoCtx, inner |-> NoCtx, innerFed |-> << >>,
          fed |-> << >>, lens |-> << >>,
          key |-> << >>, data |-> << >>, out |-> << >>]
NoRet == [status |-> "none", err |-> "", value |-> << >>]

Ok(value) == [status |-> "ok", err |-> "", value |-> value]
Throw(msg) == [status |-> "error", err |-> msg, value |-> << >>]

Stage(name) == [fn |-> name, lib |-> FALSE, ctx |-> NULL, arg |-> << >>]
LibCall(name, ctx, arg) == [fn |-> name, lib |-> TRUE, ctx |-> ctx, arg |-> arg]

Crashed == \E t \in Threads : pc[t] = "crashed"

\* The callers: either one thread that makes calls, one after the other,
\* with every input, or all threads at once, each making one call with one
\* of a few inputs, enough to meet in initializeContext
MayCall(t) == workload = "concurrent" \/ t = 1

PrivateKeyInputsOf(t) ==
  IF workload = "sequential" THEN PrivateKeyInputs
  ELSE { BytesInput(K_One) }

PubKeyInputsOf(t) ==
  IF workload = "sequential" THEN PubKeyInputs ELSE { Ser(K_One, TRUE) }

KeccakInputsOf(t) ==
  IF workload = "sequential" THEN KeccakInputs ELSE { HexInput(S_Hello) }

\* with a library that writes fewer bytes one call is looked at
CallsOf(t) ==
  IF workload = "sequential" /\ serializeWrites = "requested" THEN MaxCalls ELSE 1

\* the optional boolean argument as the caller writes it
FlagsOf(t) ==
  IF workload = "sequential" THEN { "true", "false", "omitted" } ELSE { "true" }

Init ==
  /\ workload \in { "sequential", "concurrent" }
  /\ createOk \in BOOLEAN
  /\ serializeWrites \in { "requested", "fewer" }
  \* a library that writes fewer bytes is looked at with one caller, one
  \* call (CallsOf) and a context
  /\ serializeWrites = "fewer" => workload = "sequential" /\ createOk
  /\ g_ctx_once = "idle"
  /\ g_ctx = [i \in Impls |-> NULL]
  /\ created = [i \in Impls |-> 0]
  /\ pc = [t \in Threads |-> "idle"]
  /\ call = [t \in Threads |-> NoCall]
  /\ buf = [t \in Threads |-> NoBuf]
  /\ trace = [t \in Threads |-> << >>]
  /\ ret = [t \in Threads |-> NoRet]
  /\ ncalls = [t \in Threads |-> 0]
  /\ kept = [t \in Threads |-> << >>]
  /\ sha = NoSha

\* ------------------------------------------------------------------------
\* getPublicKey: index.tsx dispatch, then toPublicKey / toPublicKeyFromBytes
\* up to the call of generatePublicKeyFromBytes
\* ------------------------------------------------------------------------
\* UTF-8 of a string given as code points (BMP, no surrogates): what
\* TextEncoder.encode returns, and the bytes of the std::string a native
\* method receives for a JavaScript string
RECURSIVE Utf8Encode(_)
Utf8Encode(str) ==
  IF Len(str) = 0 THEN << >>
  ELSE LET c == Head(str) IN
       (IF c < 128 THEN << c >>
        ELSE IF c < 2048 THEN << 192 + (c \div 64), 128 + (c % 64) >>
        ELSE << 224 + (c \div 4096), 128 + ((c \div 64) % 64), 128 + (c % 64) >>)
       \o Utf8Encode(Tail(str))

\* an entry that drops a leading 0x or 0X before decoding
toPublicKey_stripPrefix(impl, privateKey) ==
  LET bare == IF Len(privateKey) >= 2 /\ privateKey[1] = 48 /\ privateKey[2] \in { 88, 120 }
              THEN Tail(Tail(privateKey)) ELSE privateKey
  IN IF Len(bare) # 64
     THEN [err |-> "Private key must be 64 hex characters (32 bytes)", bytes |-> << >>]
     ELSE hexToBytes(bare, 32, impl)

\* toPublicKey(string): length check on the bytes of the std::string, then
\* hexToBytes into a 32-byte buffer
toPublicKey(impl, privateKey) ==
  IF Len(privateKey) # 64 THEN
    [err |-> IF impl = "Nitro" THEN "Uint8Array expected"
             ELSE "Private key must be 64 hex characters (32 bytes)",
     bytes |-> << >>]
  ELSE hexToBytes(privateKey, 32, impl)

\* toPublicKeyFromBytes(ArrayBuffer): size check
toPublicKeyFromBytes(impl, privateKey) ==
  IF Len(privateKey) # 32 THEN
    [err |-> IF impl = "Nitro" THEN "Uint8Array expected"
             ELSE "Private key must be 32 bytes", bytes |-> << >>]
  ELSE [err |-> "", bytes |-> privateKey]

\* a default that leaves the key uncompressed
IsCompressedArg_defaultFalse(given) == given = "true"

\* isCompressed: boolean = true
IsCompressedArg(given) == IF given = "omitted" THEN TRUE ELSE given = "true"

\* a default that sanitises
SanitizeArg_defaultTrue(given) == given # "false"

\* sanitize: boolean = false
SanitizeArg(given) == IF given = "omitted" THEN FALSE ELSE given = "true"

\* a dispatch that takes any container of bytes for a Uint8Array
getPublicKey_anyContainer(impl, privateKey) ==
  IF privateKey.type = "string" THEN toPublicKey(impl, Utf8Encode(privateKey.val))
  ELSE IF privateKey.type = "bigint" THEN
    LET b == bigintPrivateKeyToBytes([neg |-> privateKey.neg, mag |-> privateKey.val]) IN
    IF b.err # "" THEN b ELSE toPublicKeyFromBytes(impl, b.bytes)
  ELSE IF privateKey.type \in { "Uint8Array", "ArrayBuffer", "Array" } THEN
    toPublicKeyFromBytes(impl, privateKey.val)
  ELSE [err |-> "Private key must be a hex string, Uint8Array, or bigint",
        bytes |-> << >>]

\* getPublicKey of index.tsx: dispatch on the JavaScript type of the key; a
\* string crosses to the native method as its UTF-8 bytes
getPublicKey(impl, privateKey) ==
  IF privateKey.type = "string" THEN toPublicKey(impl, Utf8Encode(privateKey.val))
  ELSE IF privateKey.type = "bigint" THEN
    LET b == bigintPrivateKeyToBytes([neg |-> privateKey.neg, mag |-> privateKey.val]) IN
    IF b.err # "" THEN b ELSE toPublicKeyFromBytes(impl, b.bytes)
  ELSE IF privateKey.type = "Uint8Array" THEN
    IF Len(privateKey.val) # 32
    THEN [err |-> "Uint8Array expected", bytes |-> << >>]
    ELSE toPublicKeyFromBytes(impl, privateKey.val)
  ELSE [err |-> "Private key must be a hex string, Uint8Array, or bigint",
        bytes |-> << >>]

GetPublicKey(t) ==
  /\ ~Crashed
  /\ pc[t] = "idle"
  /\ MayCall(t)
  /\ ncalls[t] < CallsOf(t)
  /\ kept[t] = << >>
  /\ \E impl \in Impls, input \in PrivateKeyInputsOf(t), isCompressed \in FlagsOf(t) :
       \* the bigint path of the Nitro revision (bigintToBytes) is not in src/
       /\ impl = "Nitro" => input.type # "bigint"
       /\ LET n == getPublicKey(impl, input) IN
          /\ call' = [call EXCEPT ![t] = [impl |-> impl, op |-> "getPublicKey",
                                         input |-> input, given |-> isCompressed,
                                         flag |-> IsCompressedArg(isCompressed),
                                         env |-> "unread"]]
          /\ trace' = [trace EXCEPT ![t] = << Stage("normalize") >>]
          /\ IF n.err # ""
             THEN /\ pc' = [pc EXCEPT ![t] = "done"]
                  /\ ret' = [ret EXCEPT ![t] = Throw(n.err)]
                  /\ buf' = [buf EXCEPT ![t] = NoBuf]
             ELSE /\ pc' = [pc EXCEPT ![t] = "init"]
                  /\ ret' = [ret EXCEPT ![t] = NoRet]
                  /\ buf' = [buf EXCEPT ![t] = [NoBuf EXCEPT !.privateKeyBytes = n.bytes]]
  /\ ncalls' = [ncalls EXCEPT ![t] = @ + 1]
  /\ UNCHANGED << workload, createOk, serializeWrites, g_ctx_once, g_ctx, created, kept, sha >>

\* ------------------------------------------------------------------------
\* pubToAddress entry: index.tsx copies the key and calls the native method,
\* whose first statement is initializeContext()
\* ------------------------------------------------------------------------
PubToAddress(t) ==
  /\ ~Crashed
  /\ pc[t] = "idle"
  /\ MayCall(t)
  /\ ncalls[t] < CallsOf(t)
  /\ \E impl \in Impls, sanitize \in FlagsOf(t),
        pubKey \in IF kept[t] # << >> THEN { kept[t] } ELSE PubKeyInputsOf(t) :
       /\ call' = [call EXCEPT ![t] = [impl |-> impl, op |-> "pubToAddress",
                                      input |-> BytesInput(pubKey), given |-> sanitize,
                                      flag |-> SanitizeArg(sanitize), env |-> "unread"]]
       /\ buf' = [buf EXCEPT ![t] = [NoBuf EXCEPT !.pubKeyBytes = pubKey]]
  /\ trace' = [trace EXCEPT ![t] = << >>]
  /\ ret' = [ret EXCEPT ![t] = NoRet]
  /\ pc' = [pc EXCEPT ![t] = "init"]
  /\ ncalls' = [ncalls EXCEPT ![t] = @ + 1]
  /\ UNCHANGED << workload, createOk, serializeWrites, g_ctx_once, g_ctx, created, kept, sha >>

\* where a call continues after initializeContext
AfterInit(t) == IF call[t].op = "getPublicKey" THEN "validate" ELSE "sanitize"

\* secp256k1_context_create: a fresh context, or NULL
secp256k1_context_create(impl) == IF createOk THEN created[impl] + 1 ELSE NULL

\* ------------------------------------------------------------------------
\* initializeContext of HybridNativeUtils.cpp: std::call_once, then the
\* null check
\* ------------------------------------------------------------------------
\* entering call_once: the first caller runs the body, callers arriving
\* while it runs wait, later callers pass
CallOnceEnter(t) ==
  /\ ~Crashed
  /\ pc[t] = "init" /\ call[t].impl = "NativeUtils"
  /\ g_ctx_once # "running"
  /\ IF g_ctx_once = "idle"
     THEN /\ g_ctx_once' = "running"
          /\ pc' = [pc EXCEPT ![t] = "once_body"]
     ELSE /\ g_ctx_once' = g_ctx_once
          /\ pc' = [pc EXCEPT ![t] = "init_check"]
  /\ UNCHANGED << workload, createOk, serializeWrites, g_ctx, created, call, buf, trace, ret, ncalls, kept, sha >>

\* the body: g_ctx = secp256k1_context_create(...)
CallOnceBody(t) ==
  /\ ~Crashed
  /\ pc[t] = "once_body"
  /\ g_ctx' = [g_ctx EXCEPT !["NativeUtils"] = secp256k1_context_create("NativeUtils")]
  /\ created' = [created EXCEPT !["NativeUtils"] = @ + 1]
  /\ g_ctx_once' = "done"
  /\ pc' = [pc EXCEPT ![t] = "init_check"]
  /\ UNCHANGED << workload, createOk, serializeWrites, call, buf, trace, ret, ncalls, kept, sha >>

\* if (!g_ctx) throw
InitCheck(t) ==
  /\ ~Crashed
  /\ pc[t] = "init_check"
  /\ IF g_ctx["NativeUtils"] = NULL
     THEN /\ pc' = [pc EXCEPT ![t] = "done"]
          /\ ret' = [ret EXCEPT ![t] = Throw("Failed to initialize secp256k1 context")]
     ELSE /\ pc' = [pc EXCEPT ![t] = AfterInit(t)]
          /\ ret' = ret
  /\ UNCHANGED << workload, createOk, serializeWrites, g_ctx_once, g_ctx, created, call, buf, trace, ncalls, kept, sha >>

\* ------------------------------------------------------------------------
\* initializeContext of HybridNitroSecp256k1.cpp: an unguarded test and an
\* unguarded assignment of the shared pointer
\* ------------------------------------------------------------------------
\* if (!g_ctx)
NitroInitTest(t) ==
  /\ ~Crashed
  /\ pc[t] = "init" /\ call[t].impl = "Nitro"
  /\ pc' = [pc EXCEPT ![t] = IF g_ctx["Nitro"] = NULL THEN "nitro_create"
                             ELSE AfterInit(t)]
  /\ UNCHANGED << workload, createOk, serializeWrites, g_ctx_once, g_ctx, created, call, buf, trace, ret, ncalls, kept, sha >>

\* g_ctx = secp256k1_context_create(...)
NitroInitCreate(t) ==
  /\ ~Crashed
  /\ pc[t] = "nitro_create"
  /\ g_ctx' = [g_ctx EXCEPT !["Nitro"] = secp256k1_context_create("Nitro")]
  /\ created' = [created EXCEPT !["Nitro"] = @ + 1]
  /\ pc' = [pc EXCEPT ![t] = AfterInit(t)]
  /\ UNCHANGED << workload, createOk, serializeWrites, g_ctx_once, call, buf, trace, ret, ncalls, kept, sha >>

\* ------------------------------------------------------------------------
\* generatePublicKeyFromBytes, after initializeContext
\* ------------------------------------------------------------------------
\* HybridNativeUtils.cpp: secp256k1_ec_seckey_verify(g_ctx, privateKeyBytes);
\* HybridNitroSecp256k1.cpp: validatePrivateKeyScalar(privateKeyBytes)
Validate(t) ==
  /\ ~Crashed
  /\ pc[t] = "validate"
  /\ LET k == buf[t].privateKeyBytes IN
     IF call[t].impl = "NativeUtils"
     THEN /\ trace' = [trace EXCEPT ![t] =
                 Append(@, LibCall("secp256k1_ec_seckey_verify", g_ctx["NativeUtils"], k))]
          /\ IF ~secp256k1_ec_seckey_verify(k)
             THEN /\ pc' = [pc EXCEPT ![t] = "done"]
                  /\ ret' = [ret EXCEPT ![t] = Throw("Private key is invalid")]
             ELSE /\ pc' = [pc EXCEPT ![t] = "create"]
                  /\ ret' = ret
     ELSE /\ trace' = [trace EXCEPT ![t] = Append(@, Stage("validatePrivateKeyScalar"))]
          /\ IF validatePrivateKeyScalar(k) # ""
             THEN /\ pc' = [pc EXCEPT ![t] = "done"]
                  /\ ret' = [ret EXCEPT ![t] = Throw(validatePrivateKeyScalar(k))]
             ELSE /\ pc' = [pc EXCEPT ![t] = "create"]
                  /\ ret' = ret
  /\ UNCHANGED << workload, createOk, serializeWrites, g_ctx_once, g_ctx, created, call, buf, ncalls, kept, sha >>

\* secp256k1_ec_pubkey_create(g_ctx, &pubkey, privateKeyBytes)
CreatePoint(t) ==
  /\ ~Crashed
  /\ pc[t] = "create"
  /\ g_ctx[call[t].impl] # NULL
  /\ LET k == buf[t].privateKeyBytes
         r == secp256k1_ec_pubkey_create(k)
     IN /\ trace' = [trace EXCEPT ![t] =
               Append(@, LibCall("secp256k1_ec_pubkey_create", g_ctx[call[t].impl], k))]
        /\ IF ~r.ok
           THEN /\ pc' = [pc EXCEPT ![t] = "done"]
                /\ ret' = [ret EXCEPT ![t] =
                      Throw(IF call[t].impl = "Nitro" THEN "private key invalid 3"
                            ELSE "Failed to create public key from private key")]
                /\ buf' = buf
           ELSE /\ pc' = [pc EXCEPT ![t] = "serialize"]
                /\ ret' = ret
                /\ buf' = [buf EXCEPT ![t].pubkey = r.pubkey]
  /\ UNCHANGED << workload, createOk, serializeWrites, g_ctx_once, g_ctx, created, call, ncalls, kept, sha >>

\* what an uninitialised byte of a buffer may hold: any byte
UninitBytes == 0..255

\* the contents with which a buffer that is about to be written is looked
\* at: two of the UninitBytes, which tell a byte that was stored from one
\* that was left alone
PrefillBytes == { b \in UninitBytes : b \in { 0, 170 } }

\* the call secp256k1_ec_pubkey_serialize(g_ctx, output, &outputLen, ...) as
\* the linked library answers it: outputLen comes back as the count written,
\* which a library that departs from today's contract may make smaller
SerializeCall(pubkey, compressed) ==
  LET r == secp256k1_ec_pubkey_serialize(pubkey, compressed) IN
  IF serializeWrites = "requested" THEN r
  ELSE [ok |-> TRUE, outputLen |-> r.outputLen - 1,
        output |-> Slice(r.output, 1, r.outputLen - 1)]

\* serializeSecp256k1PubkeyChecked: serialize, then compare the length
\* written with the length asked for
serializeSecp256k1PubkeyChecked(pubkey, expectedLen, compressed) ==
  LET r == SerializeCall(pubkey, compressed) IN
  IF ~r.ok THEN Throw("Failed to serialize public key")
  ELSE IF r.outputLen # expectedLen
  THEN Throw("Unexpected public key length from secp256k1")
  ELSE Ok(r.output)

\* the serialisation of HybridNitroSecp256k1.cpp: outputLen is not compared;
\* the buffer of keySize bytes is used whole, and what the library did not
\* write is whatever the buffer held (junk)
NitroSerialize(pubkey, keySize, compressed, failMsg, junk) ==
  LET r == SerializeCall(pubkey, compressed) IN
  IF ~r.ok THEN Throw(failMsg)
  ELSE Ok(r.output \o Fill(keySize - r.outputLen, junk))

\* keySize = isCompressed ? 33 : 65; serialize into a buffer of keySize
\* bytes; return the buffer
Serialize(t) ==
  /\ ~Crashed
  /\ pc[t] = "serialize"
  /\ g_ctx[call[t].impl] # NULL
  /\ \E junk \in UninitBytes :
     LET isCompressed == call[t].flag
         keySize == IF isCompressed THEN 33 ELSE 65
         r == IF call[t].impl = "NativeUtils"
              THEN serializeSecp256k1PubkeyChecked(buf[t].pubkey, keySize, isCompressed)
              ELSE NitroSerialize(buf[t].pubkey, keySize, isCompressed,
                                  "private key invalid 3", junk)
     IN /\ trace' = [trace EXCEPT ![t] =
               Append(@, LibCall("secp256k1_ec_pubkey_serialize", g_ctx[call[t].impl],
                                 << keySize >>))]
        /\ ret' = [ret EXCEPT ![t] = r]
  /\ pc' = [pc EXCEPT ![t] = "done"]
  /\ UNCHANGED << workload, createOk, serializeWrites, g_ctx_once, g_ctx, created, call, buf, ncalls, kept, sha >>

\* ------------------------------------------------------------------------
\* pubToAddress, after initializeContext
\* ------------------------------------------------------------------------
\* branch conditions that forget the flag, or forget the length
TakesSanitizeBranch_anyFlag(sanitize, pubKeySize) == pubKeySize # 64
TakesSanitizeBranch_anyLength(sanitize, pubKeySize) == sanitize
\* a branch condition that sends only SEC1 lengths to the parser
TakesSanitizeBranch_sec1Only(sanitize, pubKeySize) == sanitize /\ pubKeySize \in {33, 65}

\* a branch condition that sends only compressed keys to the parser
TakesSanitizeBranch_compressedOnly(sanitize, pubKeySize) == sanitize /\ pubKeySize = 33

\* the condition of the sanitising branch: sanitize && pubKeySize != 64
TakesSanitizeBranch(sanitize, pubKeySize) == sanitize /\ pubKeySize # 64

\* a copy that keeps the prefix and loses the last byte
StripPrefix_fromZero(uncompressedKey) == Slice(uncompressedKey, 1, 64)

\* memcpy(uncompressedPubKeyBytes, uncompressedKey + 1, 64)
StripPrefix(uncompressedKey) == Slice(uncompressedKey, 2, 65)

\* if (sanitize && pubKeySize != 64) { secp256k1_ec_pubkey_parse(g_ctx, ...) }
\* else { if (pubKeySize != 64) throw }.  g_ctx is read here, for the parse
Sanitize(t) ==
  /\ ~Crashed
  /\ pc[t] = "sanitize"
  /\ LET pubKeyBytes == buf[t].pubKeyBytes
         pubKeySize == Len(pubKeyBytes)
     IN
     IF TakesSanitizeBranch(call[t].flag, pubKeySize) THEN
       LET p == secp256k1_ec_pubkey_parse(pubKeyBytes, pubKeySize) IN
       /\ trace' = [trace EXCEPT ![t] =
             Append(@, LibCall("secp256k1_ec_pubkey_parse", g_ctx[call[t].impl],
                               pubKeyBytes))]
       /\ IF ~p.ok
          THEN /\ pc' = [pc EXCEPT ![t] = "done"]
               /\ ret' = [ret EXCEPT ![t] = Throw("Invalid public key format")]
               /\ buf' = buf
          ELSE /\ pc' = [pc EXCEPT ![t] = "uncompress"]
               /\ ret' = ret
               /\ buf' = [buf EXCEPT ![t].pubkey = p.pubkey]
     ELSE
       /\ trace' = trace
       /\ buf' = buf
       /\ IF pubKeySize # 64
          THEN /\ pc' = [pc EXCEPT ![t] = "done"]
               /\ ret' = [ret EXCEPT ![t] = Throw("Expected pubKey to be of length 64")]
          ELSE /\ pc' = [pc EXCEPT ![t] = "hash"]
               /\ ret' = ret
  /\ UNCHANGED << workload, createOk, serializeWrites, g_ctx_once, g_ctx, created, call, ncalls, kept, sha >>

\* the rest of the sanitising branch: secp256k1_ec_pubkey_serialize(g_ctx,
\* uncompressedKey, ...) with g_ctx read again, then the copy without the
\* prefix
SanitizeSerialize(t) ==
  /\ ~Crashed
  /\ pc[t] = "uncompress"
  /\ \E junk \in UninitBytes :
     LET u == IF call[t].impl = "NativeUtils"
              THEN serializeSecp256k1PubkeyChecked(buf[t].pubkey, 65, FALSE)
              ELSE NitroSerialize(buf[t].pubkey, 65, FALSE,
                                  "Failed to serialize public key", junk)
     IN
     /\ trace' = [trace EXCEPT ![t] =
           Append(@, LibCall("secp256k1_ec_pubkey_serialize", g_ctx[call[t].impl],
                             << 65 >>))]
     /\ IF u.status = "error"
        THEN /\ pc' = [pc EXCEPT ![t] = "done"]
             /\ ret' = [ret EXCEPT ![t] = u]
             /\ buf' = buf
        ELSE /\ pc' = [pc EXCEPT ![t] = "hash"]
             /\ ret' = ret
             /\ buf' = [buf EXCEPT ![t].pubKeyBytes = StripPrefix(u.value)]
  /\ UNCHANGED << workload, createOk, serializeWrites, g_ctx_once, g_ctx, created, call, ncalls, kept, sha >>

\* a copy of the first 20 bytes of the digest
AddressOfDigest_head(hash) == [i \in 1..20 |-> hash[i]]

\* memcpy(result->data(), hash + 12, 20)
AddressOfDigest(hash) == [i \in 1..20 |-> hash[12 + i]]

\* keccak over 64 bytes of pubKeyBytes; the result is 20 bytes copied from
\* offset 12 of the digest
HashAddress(t) ==
  /\ ~Crashed
  /\ pc[t] = "hash"
  /\ LET m == Slice(buf[t].pubKeyBytes, 1, 64)
         hash == Keccak256(m)
     IN /\ trace' = [trace EXCEPT ![t] = Append(@, LibCall("keccak256", NULL, m))]
        /\ ret' = [ret EXCEPT ![t] = Ok(AddressOfDigest(hash))]
  /\ pc' = [pc EXCEPT ![t] = "done"]
  /\ UNCHANGED << workload, createOk, serializeWrites, g_ctx_once, g_ctx, created, call, buf, ncalls, kept, sha >>

\* ------------------------------------------------------------------------
\* getPublicKeyEd25519: index.tsx dispatch, then getPublicKeyEd25519 /
\* getPublicKeyEd25519FromBytes of HybridNativeUtils.cpp
\* ------------------------------------------------------------------------
\* an entry that applies the secp256k1 scalar check to the seed
getPublicKeyEd25519_scalarChecked(privateKey) ==
  LET n == IF privateKey.type = "string" /\ Len(privateKey.val) = 64
           THEN hexToBytes(Utf8Encode(privateKey.val), 32, "NativeUtils")
           ELSE IF privateKey.type = "Uint8Array" /\ Len(privateKey.val) = 32
           THEN [err |-> "", bytes |-> privateKey.val]
           ELSE [err |-> "Ed25519 private key must be 32 bytes", bytes |-> << >>]
  IN IF n.err = "" /\ ~secp256k1_ec_seckey_verify(n.bytes)
     THEN [err |-> "Private key is invalid", bytes |-> << >>]
     ELSE n

\* the seed the native key generation is called with, or the error thrown
\* before it: index.tsx counts the characters of a string, the native
\* hexToBytes decodes its UTF-8 bytes
getPublicKeyEd25519(privateKey) ==
  IF privateKey.type = "string" THEN
    IF Len(privateKey.val) # 64
    THEN [err |-> "Ed25519 private key must be 32 bytes (64 hex characters)",
          bytes |-> << >>]
    ELSE hexToBytes(Utf8Encode(privateKey.val), 32, "NativeUtils")
  ELSE IF privateKey.type = "Uint8Array" THEN
    IF Len(privateKey.val) # 32
    THEN [err |-> "Ed25519 private key must be 32 bytes", bytes |-> << >>]
    ELSE toPublicKeyFromBytes("NativeUtils", privateKey.val)
  ELSE [err |-> "Ed25519 private key must be a hex string or Uint8Array",
        bytes |-> << >>]

\* the call shares nothing with other calls: dispatch, decoding and key
\* generation are one step
GetPublicKeyEd25519(t) ==
  /\ ~Crashed
  /\ pc[t] = "idle"
  /\ MayCall(t)
  /\ ncalls[t] < CallsOf(t)
  /\ kept[t] = << >>
  /\ \E input \in PrivateKeyInputsOf(t), _compressed \in FlagsOf(t) :
       LET n == getPublicKeyEd25519(input) IN
       /\ call' = [call EXCEPT ![t] = [impl |-> "NativeUtils", op |-> "getPublicKeyEd25519",
                                      input |-> input, given |-> _compressed,
                                      flag |-> FALSE, env |-> "unread"]]
       /\ IF n.err # ""
          THEN /\ trace' = [trace EXCEPT ![t] = << Stage("normalize") >>]
               /\ ret' = [ret EXCEPT ![t] = Throw(n.err)]
               /\ buf' = [buf EXCEPT ![t] = NoBuf]
          ELSE /\ trace' = [trace EXCEPT ![t] =
                     << Stage("normalize"), LibCall("ed25519_gen_keypair", NULL, n.bytes) >>]
               /\ ret' = [ret EXCEPT ![t] = Ok(ed25519_gen_keypair(n.bytes))]
               /\ buf' = [buf EXCEPT ![t] = [NoBuf EXCEPT !.privateKeyBytes = n.bytes]]
  /\ pc' = [pc EXCEPT ![t] = "done"]
  /\ ncalls' = [ncalls EXCEPT ![t] = @ + 1]
  /\ UNCHANGED << workload, createOk, serializeWrites, g_ctx_once, g_ctx, created, kept, sha >>

\* ------------------------------------------------------------------------
\* keccak256: index.tsx dispatch on the type of the data, then
\* keccak256FromBytes (or, in the NitroSecp256k1 revision, keccak256(string))
\* ------------------------------------------------------------------------
\* HybridNitroSecp256k1::keccak256(string): the string is validated as hex
\* and decoded, two characters to a byte
keccak256HexDecode(data) ==
  IF validateHexString(data) # "" THEN [err |-> "hex invalid", bytes |-> << >>]
  ELSE [err |-> "",
        bytes |-> [i \in 1..(Len(data) \div 2) |->
                     ((hexCharToByte(data[2 * i - 1]) * 16) % 256)
                     + hexCharToByte(data[2 * i])]]

\* process.env.NODE_ENV as a call finds it
NodeEnvs == { "production", "development" }

\* a conversion that validates in every build
numberArrayToUint8Array_alwaysValidated(env, arr) ==
  LET bad == { i \in 1..Len(arr) : arr[i] < 0 \/ arr[i] > 255 } IN
  IF bad # {} THEN
    LET i == CHOOSE b \in bad : \A c \in bad : b <= c IN
    [err |-> "Invalid byte value at index " \o ToString(i - 1)
               \o ": expected integer 0-255, got " \o ToString(arr[i]),
     bytes |-> << >>]
  ELSE [err |-> "", bytes |-> [i \in 1..Len(arr) |-> arr[i] % 256]]

\* numberArrayToUint8Array: outside production the first element that is no
\* integer in 0..255 is reported; then new Uint8Array(arr), which reduces
\* each number modulo 256 (the arrays of the model hold integers)
numberArrayToUint8Array(env, arr) ==
  LET bad == { i \in 1..Len(arr) : arr[i] < 0 \/ arr[i] > 255 } IN
  IF env # "production" /\ bad # {} THEN
    LET i == CHOOSE b \in bad : \A c \in bad : b <= c IN
    [err |-> "Invalid byte value at index " \o ToString(i - 1)
               \o ": expected integer 0-255, got " \o ToString(arr[i]),
     bytes |-> << >>]
  ELSE [err |-> "", bytes |-> [i \in 1..Len(arr) |-> arr[i] % 256]]

\* keccak256 of index.tsx: the bytes that are hashed, or the error thrown
keccak256Message(impl, env, data) ==
  IF data.type = "string" THEN
    IF impl = "NativeUtils" THEN [err |-> "", bytes |-> Utf8Encode(data.val)]
    ELSE keccak256HexDecode(Utf8Encode(data.val))
  ELSE IF data.type = "Array" THEN numberArrayToUint8Array(env, data.val)
  ELSE IF data.type \in { "ArrayBuffer", "Uint8Array" } THEN
    [err |-> "", bytes |-> data.val]
  ELSE [err |-> IF impl = "NativeUtils"
                THEN "Data must be a string, number[], ArrayBuffer, or Uint8Array"
                ELSE "Data must be a hex string, number[], ArrayBuffer, or Uint8Array",
        bytes |-> << >>]

\* what keccak256 returns or throws
keccak256(impl, env, data) ==
  LET m == keccak256Message(impl, env, data) IN
  IF m.err # "" THEN Throw(m.err) ELSE Ok(Keccak256(m.bytes))

\* the call shares nothing with other calls: it is one step
Keccak256Call(t) ==
  /\ ~Crashed
  /\ pc[t] = "idle"
  /\ MayCall(t)
  /\ ncalls[t] < CallsOf(t)
  /\ kept[t] = << >>
  /\ \E impl \in Impls, data \in KeccakInputsOf(t) :
     \* process.env.NODE_ENV is read for a number array only
     \E env \in (IF data.type = "Array" THEN NodeEnvs ELSE { "unread" }) :
       LET m == keccak256Message(impl, env, data) IN
       /\ call' = [call EXCEPT ![t] = [impl |-> impl, op |-> "keccak256", input |-> data,
                                      given |-> "omitted", flag |-> FALSE, env |-> env]]
       /\ trace' = [trace EXCEPT ![t] =
             IF m.err # "" THEN << >> ELSE << LibCall("keccak256", NULL, m.bytes) >>]
       /\ ret' = [ret EXCEPT ![t] = keccak256(impl, env, data)]
  /\ buf' = [buf EXCEPT ![t] = NoBuf]
  /\ pc' = [pc EXCEPT ![t] = "done"]
  /\ ncalls' = [ncalls EXCEPT ![t] = @ + 1]
  /\ UNCHANGED << workload, createOk, serializeWrites, g_ctx_once, g_ctx, created, kept, sha >>

\* ------------------------------------------------------------------------
\* A curve operation of HybridNitroSecp256k1.cpp reached with g_ctx == NULL
\* (context creation failed and nothing checked it): the library is used
\* outside its contract.  Point creation reads the context: the process
\* dies, or the call is refused.  Parsing and serialising do not read it
\* unless an argument check fails: they run as usual (Sanitize) or the
\* process dies.
\* ------------------------------------------------------------------------
NullContextUse(t) ==
  /\ ~Crashed
  /\ \/ pc[t] = "create"
     \/ pc[t] = "sanitize" /\ TakesSanitizeBranch(call[t].flag, Len(buf[t].pubKeyBytes))
     \/ pc[t] = "uncompress"
  /\ g_ctx[call[t].impl] = NULL
  /\ trace' = [trace EXCEPT ![t] =
        Append(@, IF pc[t] = "create"
                  THEN LibCall("secp256k1_ec_pubkey_create", NULL, buf[t].privateKeyBytes)
                  ELSE IF pc[t] = "sanitize"
                  THEN LibCall("secp256k1_ec_pubkey_parse", NULL, buf[t].pubKeyBytes)
                  ELSE LibCall("secp256k1_ec_pubkey_serialize", NULL, << 65 >>))]
  /\ \E outcome \in { "crashed", "refused" } :
       IF outcome = "crashed" \/ pc[t] # "create"
       THEN /\ pc' = [pc EXCEPT ![t] = "crashed"]
            /\ ret' = ret
       ELSE /\ pc' = [pc EXCEPT ![t] = "done"]
            /\ ret' = [ret EXCEPT ![t] = Throw("private key invalid 3")]
  /\ UNCHANGED << workload, createOk, serializeWrites, g_ctx_once, g_ctx, created, call, buf, ncalls, kept, sha >>

\* the call is over: its locals go away; the caller may hold on to an
\* uncompressed key it was given, and passes it to pubToAddress next
Return(t) ==
  /\ ~Crashed
  /\ pc[t] = "done"
  /\ \E keep \in BOOLEAN :
       kept' = [kept EXCEPT ![t] =
                  IF /\ keep /\ call[t].op = "getPublicKey" /\ ret[t].status = "ok"
                     /\ call[t].given = "false" /\ ncalls[t] < CallsOf(t)
                  THEN ret[t].value ELSE << >>]
  /\ pc' = [pc EXCEPT ![t] = "idle"]
  /\ call' = [call EXCEPT ![t] = NoCall]
  /\ buf' = [buf EXCEPT ![t] = NoBuf]
  /\ trace' = [trace EXCEPT ![t] = << >>]
  /\ ret' = [ret EXCEPT ![t] = NoRet]
  /\ UNCHANGED << workload, createOk, serializeWrites, g_ctx_once, g_ctx, created, ncalls, sha >>

Next ==
  \E t \in Threads :
    \/ GetPublicKey(t)
    \/ PubToAddress(t)
    \/ GetPublicKeyEd25519(t)
    \/ Keccak256Call(t)
    \/ CallOnceEnter(t)
    \/ CallOnceBody(t)
    \/ InitCheck(t)
    \/ NitroInitTest(t)
    \/ NitroInitCreate(t)
    \/ Validate(t)
    \/ CreatePoint(t)
    \/ Serialize(t)
    \/ Sanitize(t)
    \/ SanitizeSerialize(t)
    \/ HashAddress(t)
    \/ NullContextUse(t)
    \/ Return(t)

Spec == Init /\ [][Next]_vars

\* ------------------------------------------------------------------------
\* hexToBytes on its own: the decoder applied to strings and expected
\* lengths that its callers in this module never pass on
\* ------------------------------------------------------------------------
\* characters at the edges of the three digit ranges
EdgeChars == { 47, 48, 57, 58, 64, 65, 70, 71, 96, 97, 102, 103 }

MaxHexLen == 3

RECURSIVE StringsOver(_, _)
StringsOver(chars, n) ==
  IF n = 0 THEN { << >> }
  ELSE LET shorter == StringsOver(chars, n - 1) IN
       shorter \cup { Append(str, c) : str \in { x \in shorter : Len(x) = n - 1 }, c \in chars }

HexStrings ==
  StringsOver(EdgeChars, MaxHexLen)
  \cup { x \in StringsOver({ 48, 70, 102, 103 }, MaxHexLen + 1) : Len(x) = MaxHexLen + 1 }
  \cup { HexEncode(K_NMinus1, FALSE), HexEncode(K_NMinus1, TRUE),
         HexEncode(Fill(31, 171), FALSE), HexEncode(Fill(33, 171), TRUE) }

ExpectedLens == { 0, 1, 2, 32 }

\* the loop of hexToBytes: for (i = 0; i < expectedLen; i++) bytes[i] = ...;
\* the buffer after it, and the indices stored to, in order
RECURSIVE hexToBytesLoop(_, _, _, _)
hexToBytesLoop(hex, bytes, expectedLen, i) ==
  IF i >= expectedLen THEN [bytes |-> bytes, stored |-> << >>]
  ELSE LET v == ((hexCharToByte(hex[i * 2 + 1]) * 16) % 256) + hexCharToByte(hex[i * 2 + 2])
           r == hexToBytesLoop(hex, IF i < Len(bytes) THEN SetByte(bytes, i + 1, v) ELSE bytes,
                               expectedLen, i + 1)
       IN [bytes |-> r.bytes, stored |-> << i >> \o r.stored]

\* a decoder that validates and stores in one pass over the pairs, and
\* stops at the first character that is no digit
RECURSIVE hexToBytesOnePass(_, _, _, _)
hexToBytesOnePass(hex, bytes, expectedLen, i) ==
  IF i >= expectedLen \/ i * 2 + 2 > Len(hex) THEN [bytes |-> bytes, stored |-> << >>]
  ELSE IF ~isValidHexChar(hex[i * 2 + 1]) \/ ~isValidHexChar(hex[i * 2 + 2])
  THEN [bytes |-> bytes, stored |-> << >>]
  ELSE LET v == ((hexCharToByte(hex[i * 2 + 1]) * 16) % 256) + hexCharToByte(hex[i * 2 + 2])
           r == hexToBytesOnePass(hex, IF i < Len(bytes) THEN SetByte(bytes, i + 1, v) ELSE bytes,
                                  expectedLen, i + 1)
       IN [bytes |-> r.bytes, stored |-> << i >> \o r.stored]

hexToBytesInto_onePass(hex, bytes, expectedLen, impl) ==
  LET r == hexToBytes(hex, expectedLen, impl)
      w == hexToBytesOnePass(hex, bytes, expectedLen, 0)
  IN [err |-> r.err, bytes |-> w.bytes, stored |-> w.stored]

\* hexToBytes(hex, bytes, expectedLen) with the caller's buffer: validation
\* and the length check come first and throw before the loop is entered
hexToBytesInto(hex, bytes, expectedLen, impl) ==
  LET r == hexToBytes(hex, expectedLen, impl) IN
  IF r.err # "" THEN [err |-> r.err, bytes |-> bytes, stored |-> << >>]
  ELSE LET w == hexToBytesLoop(hex, bytes, expectedLen, 0)
       IN [err |-> "", bytes |-> w.bytes, stored |-> w.stored]

\* what a call leaves once hexToBytes has run on the caller's buffer as w
HexToBytesReturns(t, impl, hex, expectedLen, junk, w) ==
  /\ call' = [call EXCEPT ![t] = [impl |-> impl, op |-> "hexToBytes",
                                 input |-> HexInput(hex), given |-> "omitted",
                                 flag |-> FALSE, env |-> "unread"]]
  /\ trace' = [trace EXCEPT ![t] =
        << [fn |-> "hexToBytes", lib |-> FALSE, ctx |-> NULL,
            arg |-> << expectedLen, junk >>],
           [fn |-> "store", lib |-> FALSE, ctx |-> NULL, arg |-> w.stored] >>]
  /\ ret' = [ret EXCEPT ![t] = IF w.err # "" THEN Throw(w.err)
                               ELSE Ok(hexToBytes(hex, expectedLen, impl).bytes)]
  /\ buf' = [buf EXCEPT ![t] = [NoBuf EXCEPT !.privateKeyBytes = w.bytes]]

\* uint8_t privateKeyBytes[32] of toPublicKey, uint8_t seed[32] of
\* getPublicKeyEd25519
HexBufferSize == 32

HexToBytesCall(t) ==
  /\ pc[t] = "idle"
  /\ MayCall(t)
  /\ ncalls[t] < CallsOf(t)
  /\ \E impl \in Impls, hex \in HexStrings, expectedLen \in ExpectedLens,
        junk \in PrefillBytes :
       HexToBytesReturns(t, impl, hex, expectedLen, junk,
                         hexToBytesInto(hex, Fill(HexBufferSize, junk), expectedLen, impl))
  /\ pc' = [pc EXCEPT ![t] = "done"]
  /\ ncalls' = [ncalls EXCEPT ![t] = @ + 1]
  /\ UNCHANGED << workload, createOk, serializeWrites, g_ctx_once, g_ctx, created, kept, sha >>

InitHex == Init /\ workload = "sequential" /\ createOk /\ serializeWrites = "requested"

NextHex == \E t \in Threads : HexToBytesCall(t) \/ Return(t)

SpecHex == InitHex /\ [][NextHex]_vars

\* ------------------------------------------------------------------------
\* HMAC-SHA512 (hmac_sha512.c)
\* ------------------------------------------------------------------------
\* memset(pad, v, 128) and pad[i] ^= key[i] for i < key_len
hmac_pad(v, key) ==
  [i \in 1..SHA512_BLOCK_SIZE |-> IF i <= Len(key) THEN Xor8[v][key[i]] ELSE v]

\* the key step with a key of the block size hashed as well
hmac_key_hashAtBlockSize(key, ctx) ==
  IF Len(key) >= SHA512_BLOCK_SIZE
  THEN sha512_final(sha512_update(sha512_init(ctx), key))
  ELSE [ctx |-> ctx, hash |-> key]

\* hmac_sha512, the key: if (key_len > SHA512_BLOCK_SIZE) it is hashed to tk
\* and key points to tk.  hash is what key points to afterwards
hmac_key(key, ctx) ==
  IF Len(key) > SHA512_BLOCK_SIZE
  THEN sha512_final(sha512_update(sha512_init(ctx), key))
  ELSE [ctx |-> ctx, hash |-> key]

\* what hmac_sha512 leaves: the 64 bytes stored to output, and the locals
\* the computation went through (the context after the inner and after the
\* outer hash, digest, k_ipad, k_opad)
hmac_locals(outer, inner, k_ipad, k_opad) ==
  [output |-> outer.hash, ctx |-> outer.ctx, inner |-> inner.ctx,
   digest |-> inner.hash, k_ipad |-> k_ipad, k_opad |-> k_opad]

\* hmac_sha512, the outer hash: SHA512(k_opad || inner_hash)
hmac_outer(inner, k_ipad, k_opad) ==
  hmac_locals(
    sha512_final(sha512_update(sha512_update(sha512_init(inner.ctx), k_opad), inner.hash)),
    inner, k_ipad, k_opad)

\* hmac_sha512, the padded keys and the inner hash: SHA512(k_ipad || data)
hmac_hashes(ctx, k_ipad, k_opad, data) ==
  hmac_outer(
    sha512_final(sha512_update(sha512_update(sha512_init(ctx), k_ipad), data)),
    k_ipad, k_opad)

\* hmac_sha512 once key is settled: k_ipad, k_opad, then the two hashes
hmac_inner(tk, data) ==
  hmac_hashes(tk.ctx, hmac_pad(54, tk.hash), hmac_pad(92, tk.hash), data)

\* hmac_sha512(key, key_len, data, data_len, output); junk is what the
\* stack holds where ctx is declared
hmac_sha512(key, data, junk) == hmac_inner(hmac_key(key, UninitCtx(junk)), data)

\* lengths of the sha512_update calls looked at: nothing, one byte, the
\* last length with room for the length field, a byte less than a block, a
\* block, two blocks and a byte
UpdateLens == { 0, 1, 111, 127, 128, 257 }
MaxUpdates == 2

\* the byte at position p (from 1) of the message fed
StreamByte(p) == (p * 37 + 11) % 256

\* keys and data of testEdgeCases
HmacKeys == { << >>, << 66 >>, Fill(128, 85), Fill(200, 153) }
HmacDatas == { << >>, << 36 >>, << 1, 2, 3 >> }

\* sha512_ctx ctx; sha512_init(&ctx);
Sha512Init ==
  /\ sha.pc = "idle"
  /\ \E junk \in PrefillBytes :
       sha' = [NoSha EXCEPT !.pc = "absorbing", !.op = "sha512",
                            !.ctx = sha512_init(UninitCtx(junk))]
  /\ UNCHANGED << workload, createOk, serializeWrites, g_ctx_once, g_ctx, created, pc, call, buf, trace, ret, ncalls, kept >>

\* sha512_update(&ctx, data, len) with the next len bytes of the message
Sha512Update ==
  /\ sha.pc = "absorbing"
  /\ Len(sha.lens) < MaxUpdates
  /\ \E len \in UpdateLens :
       LET data == [i \in 1..len |-> StreamByte(Len(sha.fed) + i)]
       IN sha' = [sha EXCEPT !.ctx = sha512_update(sha.ctx, data),
                             !.fed = @ \o data,
                             !.lens = Append(@, len)]
  /\ UNCHANGED << workload, createOk, serializeWrites, g_ctx_once, g_ctx, created, pc, call, buf, trace, ret, ncalls, kept >>

\* the computation s once sha512_final has left r
Sha512Done(s, r) == [s EXCEPT !.pc = "done", !.ctx = r.ctx, !.out = r.hash]

\* sha512_final(&ctx, hash)
Sha512Final ==
  /\ sha.pc = "absorbing"
  /\ sha' = Sha512Done(sha, sha512_final(sha.ctx))
  /\ UNCHANGED << workload, createOk, serializeWrites, g_ctx_once, g_ctx, created, pc, call, buf, trace, ret, ncalls, kept >>

\* the computation once hmac_sha512 has left r: innerFed is what the inner
\* hash was fed, fed and lens what the outer hash was fed
HmacDone(key, data, r) ==
  [NoSha EXCEPT !.pc = "done", !.op = "hmac_sha512",
                !.ctx = r.ctx, !.inner = r.inner,
                !.innerFed = r.k_ipad \o data,
                !.fed = r.k_opad \o r.digest,
                !.lens = << SHA512_BLOCK_SIZE, SHA512_DIGEST_SIZE >>,
                !.key = key, !.data = data, !.out = r.output]

\* hmacSha512(key, data) of the Nitro revision: index.tsx copies key and
\* data to ArrayBuffers, HybridNitroSecp256k1::hmacSha512 allocates 64 bytes
\* and has hmac_sha512 fill them
HmacSha512Call ==
  /\ sha.pc = "idle"
  /\ \E key \in HmacKeys, data \in HmacDatas, junk \in PrefillBytes :
       sha' = HmacDone(key, data, hmac_sha512(key, data, junk))
  /\ UNCHANGED << workload, createOk, serializeWrites, g_ctx_once, g_ctx, created, pc, call, buf, trace, ret, ncalls, kept >>

InitSha == Init /\ workload = "sequential" /\ createOk /\ serializeWrites = "requested"

NextSha == Sha512Init \/ Sha512Update \/ Sha512Final \/ HmacSha512Call

SpecSha == InitSha /\ [][NextSha]_vars

\* ------------------------------------------------------------------------
\* Properties
\* ------------------------------------------------------------------------
\* a < b as numbers, by subtracting from the least significant byte up and
\* looking at the final borrow
RECURSIVE BorrowFrom(_, _, _)
BorrowFrom(a, b, i) ==
  IF i > Len(a) THEN 0
  ELSE IF a[i] - BorrowFrom(a, b, i + 1) < b[i] THEN 1 ELSE 0

ScalarInRange(k) == (\E i \in 1..32 : k[i] # 0) /\ BorrowFrom(k, SECP256K1_N, 1) = 1

\* error kinds of the messages thrown
KindOf(msg) ==
  CASE msg \in { "Expected pubKey to be of length 64",
                 "Private key must be 64 hex characters (32 bytes)",
                 "Private key must be 32 bytes", "Invalid hex string length",
                 "Uint8Array expected",
                 "Ed25519 private key must be 32 bytes (64 hex characters)",
                 "Ed25519 private key must be 32 bytes" } -> "LengthMismatch"
    [] msg \in { "Invalid hex string: odd length",
                 "Invalid hex string: contains non-hex characters",
                 "hex invalid" } -> "InvalidHexEncoding"
    [] msg = "Invalid public key format" -> "InvalidEncoding"
    [] msg = "Private key cannot be zero" -> "ZeroScalar"
    [] msg = "Private key must be positive" -> "NegativeScalar"
    [] msg = "Private key must be less than the secp256k1 curve order"
         -> "ScalarOutOfRange"
    [] msg \in { "Private key is invalid", "private key invalid 3" }
         -> "InvalidScalar"
    [] msg \in { "Unexpected public key length from secp256k1" }
         -> "SerializationLengthMismatch"
    [] msg \in { "Private key must be a hex string, Uint8Array, or bigint",
                 "Ed25519 private key must be a hex string or Uint8Array" }
         -> "UnsupportedInputType"
    [] OTHER -> "Other"

Finished(t, op) == pc[t] = "done" /\ call[t].op = op

\* the calls of a trace, by function name
CallsTo(t, fn) == { i \in 1..Len(trace[t]) : trace[t][i].fn = fn }

FnNames(t) == [i \in 1..Len(trace[t]) |-> trace[t][i].fn]

\* the 32-byte scalar a hex or byte input denotes, known from how the input
\* was built
FormsOf(k) ==
  { BytesInput(k), HexInput(HexEncode(k, FALSE)), HexInput(HexEncode(k, TRUE)) }

\* the forms of the keys of PrivateKeys32, tabulated
FormsOfKey == [k \in PrivateKeys32 |-> FormsOf(k)]

Denotes(input, k) ==
  input \in (IF k \in PrivateKeys32 THEN FormsOfKey[k] ELSE FormsOf(k))

\* C1: a derivation from a 32-byte key (64 hex characters or 32 bytes)
\* returns a public key exactly when 1 <= v < N, and point creation is never
\* called with a scalar outside that range (the equivalence is stated for
\* runs in which the curve context could be created and the library writes
\* the count it is asked for)
C1_KeyIffScalarInRange ==
  \A t \in Threads :
    /\ Finished(t, "getPublicKey") /\ createOk /\ serializeWrites = "requested" =>
         \A k \in PrivateKeys32 :
           Denotes(call[t].input, k) =>
             /\ ret[t].status = "ok" <=> ScalarInRange(k)
             /\ ~ScalarInRange(k) => ret[t].status = "error"
    /\ \A i \in CallsTo(t, "secp256k1_ec_pubkey_create") :
         ScalarInRange(trace[t][i].arg)

C1_Witness ==
  \E t \in Threads :
    /\ Finished(t, "getPublicKey") /\ createOk
    /\ call[t].input = HexInput(HexEncode(K_N, FALSE))
    /\ call[t].impl = "Nitro"
    /\ ret[t].status = "error"
    /\ CallsTo(t, "secp256k1_ec_pubkey_create") = {}

\* C2: whatever the interleaving of first calls, each translation unit
\* creates its context once, and every curve operation is handed that one
\* context
C2_ContextCreatedOnce ==
  createOk =>
    \A impl \in Impls :
      /\ created[impl] <= 1
      /\ \A t \in Threads :
           call[t].impl = impl =>
             \A i \in 1..Len(trace[t]) :
               trace[t][i].lib /\ trace[t][i].fn # "keccak256" => trace[t][i].ctx = 1

\* C3 as stated: a key whose length is none of 33, 64, 65 fails with the
\* length error whatever the flag, and is not handed to the parser
C3_LengthErrorWhateverFlag ==
  \A t \in Threads :
    Finished(t, "pubToAddress") /\ createOk
      /\ Len(call[t].input.val) \notin {33, 64, 65} =>
        /\ ret[t].status = "error"
        /\ KindOf(ret[t].err) = "LengthMismatch"
        /\ CallsTo(t, "secp256k1_ec_pubkey_parse") = {}

\* C3 amended: such a key always fails and nothing is hashed; with the flag
\* false it fails with the length error and the parser is not called, with
\* the flag true it is handed to the parser and fails with InvalidEncoding
C3_BadLengthRejected ==
  \A t \in Threads :
    Finished(t, "pubToAddress") /\ createOk
      /\ Len(call[t].input.val) \notin {33, 64, 65} =>
        /\ ret[t].status = "error"
        /\ ret[t].value = << >>
        /\ CallsTo(t, "keccak256") = {}
        /\ IF call[t].flag
           THEN /\ KindOf(ret[t].err) = "InvalidEncoding"
                /\ FnNames(t) = << "secp256k1_ec_pubkey_parse" >>
                /\ trace[t][1].arg = call[t].input.val
           ELSE /\ KindOf(ret[t].err) = "LengthMismatch"
                /\ FnNames(t) = << >>

C3_Witness ==
  \E t \in Threads :
    /\ Finished(t, "pubToAddress") /\ createOk
    /\ call[t].input.val = Fill(32, 18)
    /\ call[t].flag
    /\ call[t].impl = "NativeUtils"
    /\ ret[t].err = "Invalid public key format"

\* C4: with sanitize = false an address comes back only for a 64-byte input;
\* any other length fails with the length error, and the parser is never
\* called
C4_NoSanitizeOnly64 ==
  \A t \in Threads :
    Finished(t, "pubToAddress") /\ ~call[t].flag =>
      /\ ret[t].status = "ok" => Len(call[t].input.val) = 64
      /\ CallsTo(t, "secp256k1_ec_pubkey_parse") = {}
      /\ Len(call[t].input.val) # 64 =>
           /\ ret[t].status = "error"
           /\ ret[t].value = << >>
           /\ createOk \/ call[t].impl = "Nitro" =>
                KindOf(ret[t].err) = "LengthMismatch"
      /\ Len(call[t].input.val) = 64 /\ createOk => ret[t].status = "ok"

C4_Witness ==
  \E t \in Threads :
    /\ Finished(t, "pubToAddress") /\ ~call[t].flag
    /\ call[t].input.val = Ser(K_One, FALSE)
    /\ ret[t].err = "Expected pubKey to be of length 64"

\* C5: with sanitize = true a 33- or 65-byte key is parsed, the parsed point
\* is serialised uncompressed, and exactly the 64 bytes after the 0x04
\* prefix are hashed; a key that does not parse fails with InvalidEncoding
\* and nothing is hashed
C5_SanitizeParsesAndStrips ==
  \A t \in Threads :
    Finished(t, "pubToAddress") /\ createOk /\ call[t].flag /\ serializeWrites = "requested"
      /\ Len(call[t].input.val) \in {33, 65} =>
        LET in == call[t].input.val
            p == secp256k1_ec_pubkey_parse(in, Len(in))
        IN
        /\ trace[t][1].fn = "secp256k1_ec_pubkey_parse" /\ trace[t][1].arg = in
        /\ IF p.ok
           THEN /\ FnNames(t) = << "secp256k1_ec_pubkey_parse",
                                   "secp256k1_ec_pubkey_serialize", "keccak256" >>
                /\ trace[t][2].arg = << 65 >>
                /\ trace[t][3].arg = p.pubkey.x \o p.pubkey.y
                /\ ret[t].status = "ok"
           ELSE /\ FnNames(t) = << "secp256k1_ec_pubkey_parse" >>
                /\ ret[t] = Throw("Invalid public key format")
                /\ KindOf(ret[t].err) = "InvalidEncoding"
        \* keys built from a scalar: the hashed bytes are x || y of its point
        /\ \A k \in PubKeyScalars :
             in \in { Ser(k, TRUE), Ser(k, FALSE) } =>
               /\ ret[t].status = "ok"
               /\ trace[t][3].arg = PointOf(k).x \o PointOf(k).y
        \* a bad prefix, and a 65-byte buffer that starts with 0x02
        /\ in \in { SetByte(Ser(K_One, TRUE), 1, 5), SetByte(Ser(K_One, FALSE), 1, 2) }
             => ret[t].status = "error" /\ CallsTo(t, "keccak256") = {}

C5_Witness ==
  \E t \in Threads :
    /\ Finished(t, "pubToAddress") /\ createOk /\ call[t].flag
    /\ call[t].input.val = Ser(K_NMinus1, TRUE)
    /\ ret[t].status = "ok"
    /\ Len(trace[t]) = 3

\* the address expected for 64 raw bytes: the last 20 bytes of their digest
ExpectedAddress(raw) == Slice(Keccak256(raw), 13, 32)

\* C6: a 64-byte input gives the same result under both values of the flag:
\* it is hashed as it is, without being parsed
C6_Raw64SameUnderBothFlags ==
  \A t \in Threads :
    Finished(t, "pubToAddress") /\ Len(call[t].input.val) = 64 =>
      IF call[t].impl = "NativeUtils" /\ ~createOk
      THEN ret[t] = Throw("Failed to initialize secp256k1 context")
      ELSE /\ ret[t] = Ok(ExpectedAddress(call[t].input.val))
           /\ trace[t] = << LibCall("keccak256", NULL, call[t].input.val) >>

C6_Witness ==
  \E t \in Threads :
    /\ Finished(t, "pubToAddress") /\ call[t].flag
    /\ call[t].input.val = Fill(64, 0)
    /\ ret[t].status = "ok"

\* C7: a successful pubToAddress returns 20 bytes, the bytes 12..31 of the
\* digest of the 64-byte raw key, in order
C7_AddressIsDigestTail ==
  \A t \in Threads :
    Finished(t, "pubToAddress") /\ ret[t].status = "ok" =>
      /\ Len(ret[t].value) = 20
      /\ Len(trace[t]) > 0
      /\ LET h == trace[t][Len(trace[t])] IN
         /\ h.fn = "keccak256"
         /\ Len(h.arg) = 64
         /\ CallsTo(t, "keccak256") = { Len(trace[t]) }
         /\ ret[t].value = SubSeq(Keccak256(h.arg), 13, 32)

C7_Witness ==
  \E t \in Threads :
    /\ Finished(t, "pubToAddress") /\ ret[t].status = "ok"
    /\ call[t].input.val = Tail(Ser(K_One, FALSE))
    /\ ret[t].value # AddressOfDigest_head(Keccak256(call[t].input.val))

\* the stages of a derivation, in program order
DerivationStages(impl) ==
  << "normalize",
     IF impl = "NativeUtils" THEN "secp256k1_ec_seckey_verify"
     ELSE "validatePrivateKeyScalar",
     "secp256k1_ec_pubkey_create",
     "secp256k1_ec_pubkey_serialize" >>

IsPrefix(a, b) == Len(a) <= Len(b) /\ \A i \in 1..Len(a) : a[i] = b[i]

\* what C8 asks of the derivation of thread t: the stages run so far are the
\* first stages of the program order; a buffer comes back only from a call
\* that ran all four stages, and every byte of it was written by the
\* serialise stage; an error ends the call at the stage that failed, with
\* that stage's error and no buffer
ShortCircuits(t) ==
  /\ IsPrefix(FnNames(t), DerivationStages(call[t].impl))
  /\ ret[t].status = "ok" =>
       /\ pc[t] = "done"
       /\ Len(trace[t]) = 4
       /\ Len(ret[t].value) = IF call[t].flag THEN 33 ELSE 65
       /\ SerializeCall(buf[t].pubkey, call[t].flag).outputLen = Len(ret[t].value)
       /\ ret[t].value
            = secp256k1_ec_pubkey_serialize(PointOf(buf[t].privateKeyBytes),
                                            call[t].flag).output
  /\ ret[t].status = "error" =>
       /\ pc[t] = "done"
       /\ ret[t].value = << >>
       /\ Len(trace[t]) \in 1..4
       /\ Len(trace[t]) = 1 =>
            /\ \A k \in PrivateKeys32 : ~Denotes(call[t].input, k)
            /\ KindOf(ret[t].err) \in
                 { "LengthMismatch", "InvalidHexEncoding", "UnsupportedInputType",
                   "ZeroScalar", "NegativeScalar", "ScalarOutOfRange" }
       /\ Len(trace[t]) = 2 =>
            /\ ~ScalarInRange(buf[t].privateKeyBytes)
            /\ KindOf(ret[t].err) = "InvalidScalar"
       /\ Len(trace[t]) = 3 =>
            ret[t].err \in { "Failed to create public key from private key",
                             "private key invalid 3" }
       /\ Len(trace[t]) = 4 =>
            /\ SerializeCall(buf[t].pubkey, call[t].flag).outputLen
                 # (IF call[t].flag THEN 33 ELSE 65)
            /\ KindOf(ret[t].err) = "SerializationLengthMismatch"
  /\ pc[t] = "done" => ret[t].status \in { "ok", "error" }

\* C8: a derivation runs normalise, validate, create, serialise in that
\* order; a failing stage ends the call with its error, no later stage
\* runs, and no buffer is returned, in particular none that the serialise
\* stage has written in part only.  Stated for every derivation in a
\* process whose curve context could be created
C8_StagesInOrderShortCircuit ==
  \A t \in Threads :
    call[t].op = "getPublicKey" /\ createOk => ShortCircuits(t)

\* the same for the derivations of HybridNativeUtils.cpp, whatever count the
\* library writes, and for those of HybridNitroSecp256k1.cpp as long as the
\* library writes the count requested
C8_ShortCircuitWhereCountChecked ==
  \A t \in Threads :
    call[t].op = "getPublicKey" /\ createOk
      /\ (call[t].impl = "NativeUtils" \/ serializeWrites = "requested") =>
        ShortCircuits(t)

\* the serialise stage of HybridNativeUtils.cpp failing: the fourth stage
\* throws and no buffer comes back
C8_SerialiseStageFails ==
  \E t \in Threads :
    /\ Finished(t, "getPublicKey") /\ createOk /\ serializeWrites = "fewer"
    /\ call[t].impl = "NativeUtils"
    /\ call[t].input = BytesInput(K_One)
    /\ Len(trace[t]) = 4
    /\ ret[t] = Throw("Unexpected public key length from secp256k1")

\* a derivation of HybridNitroSecp256k1.cpp returning a buffer of 65 bytes of
\* which the library wrote 64
C8_PartialBufferReturned ==
  \E t \in Threads :
    /\ Finished(t, "getPublicKey") /\ createOk /\ serializeWrites = "fewer"
    /\ call[t].impl = "Nitro"
    /\ call[t].input = BytesInput(K_One) /\ ~call[t].flag
    /\ ret[t].status = "ok"
    /\ Len(ret[t].value) = 65
    /\ SerializeCall(buf[t].pubkey, FALSE).outputLen = 64
    /\ ret[t].value[65] # Ser(K_One, FALSE)[65]

\* C9 as stated: the system's own validator has completed before the key
\* bytes are passed to any curve-context operation
C9_OwnValidatorBeforeCurve ==
  \A t \in Threads :
    call[t].op = "getPublicKey" =>
      \A i \in 1..Len(trace[t]) :
        trace[t][i].lib =>
          \E j \in 1..(i - 1) : trace[t][j].fn = "validatePrivateKeyScalar"

\* C9 amended: a scalar check has accepted the key before point creation is
\* called: the system's own validator in HybridNitroSecp256k1.cpp, where no
\* curve operation precedes it, and the library's secp256k1_ec_seckey_verify
\* in HybridNativeUtils.cpp
C9_ScalarCheckBeforeCreate ==
  \A t \in Threads :
    call[t].op = "getPublicKey" =>
      /\ \A i \in CallsTo(t, "secp256k1_ec_pubkey_create") :
           /\ i > 1
           /\ trace[t][i - 1].fn =
                IF call[t].impl = "Nitro" THEN "validatePrivateKeyScalar"
                ELSE "secp256k1_ec_seckey_verify"
           /\ call[t].impl = "NativeUtils" => trace[t][i - 1].arg = trace[t][i].arg
           /\ trace[t][i].arg = buf[t].privateKeyBytes
           /\ ScalarInRange(buf[t].privateKeyBytes)
      /\ call[t].impl = "Nitro" =>
           \A i \in 1..Len(trace[t]) :
             trace[t][i].lib =>
               \E j \in 1..(i - 1) : trace[t][j].fn = "validatePrivateKeyScalar"

C9_Witness ==
  \E t \in Threads :
    /\ call[t].op = "getPublicKey" /\ call[t].impl = "NativeUtils"
    /\ pc[t] = "serialize"
    /\ buf[t].privateKeyBytes = K_NMinus1
    /\ CallsTo(t, "secp256k1_ec_pubkey_create") = {3}

\* the scalar an input of any form denotes
DenotesAny(input, k) ==
  Denotes(input, k) \/ input = BigintInput(FALSE, StripLeadingZeros(k))

\* C10 as stated: in every form N-1 succeeds, N fails with ScalarOutOfRange
\* and 0 fails with ZeroScalar
C10_BoundaryKindsEveryForm ==
  \A t \in Threads :
    Finished(t, "getPublicKey") /\ createOk /\ serializeWrites = "requested" =>
      /\ DenotesAny(call[t].input, K_NMinus1) => ret[t].status = "ok"
      /\ DenotesAny(call[t].input, K_N) =>
           ret[t].status = "error" /\ KindOf(ret[t].err) = "ScalarOutOfRange"
      /\ DenotesAny(call[t].input, K_Zero) =>
           ret[t].status = "error" /\ KindOf(ret[t].err) = "ZeroScalar"

\* the one message a native implementation has for a rejected scalar
InvalidScalarMessage(impl) ==
  IF impl = "NativeUtils" THEN "Private key is invalid" ELSE "private key invalid 3"

\* C10 amended: in every form N-1 succeeds and N and 0 fail; the bigint form
\* tells the two failures apart (ScalarOutOfRange, ZeroScalar), the hex and
\* byte forms fail with one and the same message for both
C10_BoundaryKindsBigintOnly ==
  \A t \in Threads :
    Finished(t, "getPublicKey") /\ createOk /\ serializeWrites = "requested" =>
      /\ DenotesAny(call[t].input, K_NMinus1) => ret[t].status = "ok"
      /\ \A k \in { K_N, K_Zero } :
           DenotesAny(call[t].input, k) =>
             /\ ret[t].status = "error"
             /\ IF call[t].input.type = "bigint"
                THEN KindOf(ret[t].err) =
                       IF k = K_N THEN "ScalarOutOfRange" ELSE "ZeroScalar"
                ELSE ret[t].err = InvalidScalarMessage(call[t].impl)

C10_Witness ==
  \E t \in Threads :
    /\ Finished(t, "getPublicKey") /\ createOk
    /\ call[t].input = BigintInput(FALSE, K_N)
    /\ ret[t].err = "Private key must be less than the secp256k1 curve order"

\* C11: every serialisation compares the count the library reports as
\* written with the requested form's length: once a serialisation has
\* written another count, the call has failed with
\* SerializationLengthMismatch, no buffer is returned and nothing is hashed
C11_EverySerialisationChecked ==
  \A t \in Threads :
    serializeWrites # "requested"
      /\ CallsTo(t, "secp256k1_ec_pubkey_serialize") # {} =>
        /\ pc[t] = "done"
        /\ ret[t].status = "error"
        /\ KindOf(ret[t].err) = "SerializationLengthMismatch"
        /\ ret[t].value = << >>
        /\ CallsTo(t, "keccak256") = {}

\* the same, for the calls into HybridNativeUtils.cpp alone
C11_CheckedInNativeUtils ==
  \A t \in Threads :
    serializeWrites # "requested" /\ call[t].impl = "NativeUtils"
      /\ CallsTo(t, "secp256k1_ec_pubkey_serialize") # {} =>
        /\ pc[t] = "done"
        /\ ret[t] = Throw("Unexpected public key length from secp256k1")
        /\ CallsTo(t, "keccak256") = {}

\* C12: for every valid private key, in every input form, getPublicKey
\* returns 33 bytes that start with 0x02 or 0x03 (by the parity of y) when
\* isCompressed is true or omitted, and 65 bytes that start with 0x04 when it
\* is false
C12_FormLengthAndPrefix ==
  \A t \in Threads :
    Finished(t, "getPublicKey") /\ createOk /\ serializeWrites = "requested" =>
      \A k \in PrivateKeys32 :
        DenotesAny(call[t].input, k) /\ ScalarInRange(k) =>
          /\ ret[t].status = "ok"
          /\ IF call[t].given \in { "true", "omitted" }
             THEN /\ Len(ret[t].value) = 33
                  /\ ret[t].value[1] \in { 2, 3 }
                  /\ ret[t].value[1] = 2 + (PointOf(k).y[32] % 2)
             ELSE /\ Len(ret[t].value) = 65
                  /\ ret[t].value[1] = 4

C12_Witness ==
  \E t \in Threads :
    /\ Finished(t, "getPublicKey") /\ createOk /\ serializeWrites = "requested"
    /\ call[t].input = HexInput(HexEncode(K_One, FALSE))
    /\ call[t].given = "omitted"
    /\ Len(ret[t].value) = 33

\* C13 as stated: the key returned by getPublicKey(privateKey, false), passed
\* to pubToAddress with sanitize omitted, gives the 20-byte address
C13_UncompressedKeyPassesDirectly ==
  \A t \in Threads :
    Finished(t, "pubToAddress") /\ kept[t] # << >> /\ call[t].given = "omitted"
      /\ createOk /\ serializeWrites = "requested" =>
        /\ ret[t].status = "ok"
        /\ Len(ret[t].value) = 20

\* C13 amended: that key is 65 bytes long and starts with 0x04; pubToAddress
\* with sanitize omitted or false rejects it with the length error, and with
\* sanitize = true returns the 20-byte address of the key, the digest tail
\* of the 64 bytes after the prefix
C13_UncompressedKeyNeedsSanitize ==
  \A t \in Threads :
    Finished(t, "pubToAddress") /\ kept[t] # << >>
      /\ createOk /\ serializeWrites = "requested" =>
        /\ call[t].input.val = kept[t]
        /\ Len(kept[t]) = 65 /\ kept[t][1] = 4
        /\ IF call[t].given = "true"
           THEN /\ ret[t] = Ok(ExpectedAddress(Tail(kept[t])))
                /\ Len(ret[t].value) = 20
           ELSE /\ ret[t] = Throw("Expected pubKey to be of length 64")
                /\ KindOf(ret[t].err) = "LengthMismatch"

C13_Witness ==
  \E t \in Threads :
    /\ Finished(t, "pubToAddress") /\ kept[t] = Ser(K_NMinus1, FALSE)
    /\ createOk /\ serializeWrites = "requested"
    /\ call[t].given = "omitted"
    /\ ret[t].status = "error"

\* a hex string with a leading 0x or 0X followed by 64 hex digits
HasHexPrefix(input) ==
  /\ input.type = "string"
  /\ Len(input.val) = 66
  /\ input.val[1] = 48 /\ input.val[2] \in { 88, 120 }
  /\ \A i \in 3..66 : isValidHexChar(input.val[i])

\* C14: a private key given as 0x or 0X followed by 64 hex digits is rejected
\* by getPublicKey and by getPublicKeyEd25519: the call fails, no key is
\* returned, and nothing is decoded or handed to a key operation
C14_PrefixedHexRejected ==
  \A t \in Threads :
    pc[t] = "done" /\ call[t].op \in { "getPublicKey", "getPublicKeyEd25519" }
      /\ HasHexPrefix(call[t].input) =>
        /\ ret[t].status = "error"
        /\ ret[t].value = << >>
        /\ KindOf(ret[t].err) \in { "LengthMismatch", "InvalidHexEncoding" }
        /\ buf[t].privateKeyBytes = << >>
        /\ trace[t] = << Stage("normalize") >>

C14_Witness ==
  \E t \in Threads :
    /\ Finished(t, "getPublicKey") /\ call[t].impl = "NativeUtils"
    /\ call[t].input = HexInput(<< 48, 120 >> \o HexEncode(K_One, FALSE))
    /\ ret[t].status = "error"

\* C15: keccak256 of a string is keccak256 of the UTF-8 bytes of the string,
\* whichever container holds them, and the string is never hex-decoded:
\* this for every string, hex digits and 0x prefix included
C15_StringHashedAsUtf8 ==
  \A t \in Threads :
    Finished(t, "keccak256") /\ call[t].input.type = "string" =>
      LET utf8 == Utf8Encode(call[t].input.val) IN
      /\ ret[t].status = "ok"
      /\ trace[t] = << LibCall("keccak256", NULL, utf8) >>
      /\ \A ty \in { "Uint8Array", "ArrayBuffer", "Array" } :
           ret[t] = keccak256(call[t].impl, call[t].env, [type |-> ty, val |-> utf8, neg |-> FALSE])

\* the same, for the keccak256 of the current index.tsx alone
C15_Utf8InCurrentRevision ==
  \A t \in Threads :
    Finished(t, "keccak256") /\ call[t].input.type = "string"
      /\ call[t].impl = "NativeUtils" =>
        LET utf8 == Utf8Encode(call[t].input.val) IN
        /\ utf8 \in Utf8Bytes
        /\ ret[t] = Ok(Keccak256(utf8))
        /\ trace[t] = << LibCall("keccak256", NULL, utf8) >>
        /\ \A ty \in { "Uint8Array", "ArrayBuffer", "Array" } :
             ret[t] = keccak256(call[t].impl, call[t].env, [type |-> ty, val |-> utf8, neg |-> FALSE])

\* a magnitude (digits without leading zeros) is >= N, judged by length and
\* by the borrow of a subtraction
MagAtLeastN(mag) ==
  \/ Len(mag) > 32
  \/ BorrowFrom(Fill(32 - Len(mag), 0) \o mag, SECP256K1_N, 1) = 0

\* C16: a bigint key is checked for sign, then for zero, then against N, and
\* fails with NegativeScalar, ZeroScalar, ScalarOutOfRange in that order of
\* precedence; a value v with 0 < v < N becomes 32 bytes, big-endian and
\* left-padded with zeros, whose value is v
C16_BigintChecksAndBytes ==
  \A t \in Threads :
    call[t].op = "getPublicKey" /\ call[t].input.type = "bigint" =>
      LET mag == call[t].input.val
          bytes == buf[t].privateKeyBytes
      IN
      IF call[t].input.neg THEN
        /\ ret[t] = Throw("Private key must be positive")
        /\ KindOf(ret[t].err) = "NegativeScalar"
        /\ bytes = << >>
      ELSE IF mag = << >> THEN
        /\ ret[t] = Throw("Private key cannot be zero")
        /\ KindOf(ret[t].err) = "ZeroScalar"
        /\ bytes = << >>
      ELSE IF MagAtLeastN(mag) THEN
        /\ ret[t] = Throw("Private key must be less than the secp256k1 curve order")
        /\ KindOf(ret[t].err) = "ScalarOutOfRange"
        /\ bytes = << >>
      ELSE
        /\ Len(bytes) = 32
        /\ StripLeadingZeros(bytes) = mag
        /\ \A i \in 1..(32 - Len(mag)) : bytes[i] = 0
        /\ \A i \in 1..Len(mag) : bytes[32 - Len(mag) + i] = mag[i]
        /\ ret[t].status = "error" => KindOf(ret[t].err) \notin
             { "NegativeScalar", "ZeroScalar", "ScalarOutOfRange" }

C16_Witness ==
  \E t \in Threads :
    /\ Finished(t, "getPublicKey")
    /\ call[t].input = BigintInput(FALSE, << 1, 0 >>)
    /\ buf[t].privateKeyBytes = K_256
    /\ ret[t].status = "ok"

\* C17: for a valid scalar and a value of the compressed flag, getPublicKey
\* returns the same bytes whether the key is given as hex (lower or upper
\* case), as 32 bytes, or as a bigint: the result is the serialised point of
\* the scalar, whatever the form
C17_SameKeyFromEveryForm ==
  \A t \in Threads :
    Finished(t, "getPublicKey") /\ createOk /\ serializeWrites = "requested" =>
      \A k \in PrivateKeys32 :
        DenotesAny(call[t].input, k) /\ ScalarInRange(k) =>
          /\ buf[t].privateKeyBytes = k
          /\ ret[t] = Ok(Ser(k, call[t].flag))

C17_Witness ==
  \E t \in Threads :
    /\ Finished(t, "getPublicKey") /\ createOk /\ serializeWrites = "requested"
    /\ call[t].input = HexInput(HexEncode(K_MidDown, TRUE))
    /\ call[t].given = "false"
    /\ ret[t] = Ok(Ser(K_MidDown, FALSE))

\* the sixteen digits in order, and the value of a digit read off that list
\* after folding the case
HexDigitsLower ==
  << 48, 49, 50, 51, 52, 53, 54, 55, 56, 57, 97, 98, 99, 100, 101, 102 >>

FoldCase(c) == IF c >= 65 /\ c <= 90 THEN c + 32 ELSE c

IsHexDigit(c) == \E v \in 1..16 : HexDigitsLower[v] = FoldCase(c)

DigitValue(c) == (CHOOSE v \in 1..16 : HexDigitsLower[v] = FoldCase(c)) - 1

\* C18: hexToBytes(hex, expectedLen) succeeds exactly when hex has even
\* length, only hex digits, and length 2 * expectedLen; byte i is then
\* 16 * value(hex[2i]) + value(hex[2i+1]) (indices from 0), case folded;
\* odd length or a character that is no hex digit fails with
\* InvalidHexEncoding, and a well-formed string of another length fails with
\* LengthMismatch
C18_HexToBytes ==
  \A t \in Threads :
    Finished(t, "hexToBytes") =>
      LET hex == call[t].input.val
          expectedLen == trace[t][1].arg[1]
          wellFormed == Len(hex) % 2 = 0 /\ \A i \in 1..Len(hex) : IsHexDigit(hex[i])
      IN
      /\ ret[t].status = "ok" <=> wellFormed /\ Len(hex) = 2 * expectedLen
      /\ ret[t].status = "ok" =>
           /\ Len(ret[t].value) = expectedLen
           /\ \A i \in 0..(expectedLen - 1) :
                ret[t].value[i + 1] =
                  16 * DigitValue(hex[2 * i + 1]) + DigitValue(hex[2 * i + 2])
      /\ ~wellFormed =>
           ret[t].status = "error" /\ KindOf(ret[t].err) = "InvalidHexEncoding"
      /\ wellFormed /\ Len(hex) # 2 * expectedLen =>
           ret[t].status = "error" /\ KindOf(ret[t].err) = "LengthMismatch"

C18_Witness ==
  \E t \in Threads :
    /\ Finished(t, "hexToBytes")
    /\ call[t].input.val = << 102, 70 >>
    /\ call[t].impl = "NativeUtils"
    /\ ret[t] = Ok(<< 255 >>)

\* C19: getPublicKey given a key that is no string, bigint or Uint8Array, and
\* getPublicKeyEd25519 given a key that is no string or Uint8Array, fail with
\* UnsupportedInputType, and no native operation has been invoked
C19_OtherTypesRejectedFirst ==
  \A t \in Threads :
    /\ (\/ (call[t].op = "getPublicKey" /\ call[t].input.type \in OtherTypes)
        \/ (call[t].op = "getPublicKeyEd25519"
              /\ call[t].input.type \in OtherTypes \cup { "bigint" }))
       =>
         /\ pc[t] = "done"
         /\ ret[t].status = "error"
         /\ KindOf(ret[t].err) = "UnsupportedInputType"
         /\ ret[t].value = << >>
         /\ trace[t] = << Stage("normalize") >>
         /\ buf[t] = NoBuf
    \* and the kind is kept for these inputs
    /\ (call[t].op \in { "getPublicKey", "getPublicKeyEd25519" }
         /\ ret[t].status = "error" /\ KindOf(ret[t].err) = "UnsupportedInputType")
       => call[t].input.type \notin { "string", "Uint8Array" }

C19_Witness ==
  \E t \in Threads :
    /\ Finished(t, "getPublicKeyEd25519")
    /\ call[t].input = BigintInput(FALSE, << 1 >>)
    /\ ret[t] = Throw("Ed25519 private key must be a hex string or Uint8Array")

\* C20: getPublicKeyEd25519 checks the length of the seed and nothing else:
\* 32 bytes, or 64 hex digits, of any value (all zero and all 0xFF included)
\* give a 32-byte key that is a function of the seed alone; any other length
\* is rejected; the second argument changes nothing
C20_Ed25519LengthOnly ==
  \A t \in Threads :
    Finished(t, "getPublicKeyEd25519") =>
      LET in == call[t].input IN
      /\ \A k \in PrivateKeys32 :
           Denotes(in, k) =>
             /\ ret[t] = Ok(ed25519_gen_keypair(k))
             /\ Len(ret[t].value) = 32
             /\ trace[t] = << Stage("normalize"), LibCall("ed25519_gen_keypair", NULL, k) >>
      /\ (in.type = "Uint8Array" /\ Len(in.val) = 32) => ret[t].status = "ok"
      /\ (in.type = "string" /\ Len(in.val) = 64
            /\ \A i \in 1..64 : isValidHexChar(in.val[i])) => ret[t].status = "ok"
      /\ ((in.type = "Uint8Array" /\ Len(in.val) # 32)
            \/ (in.type = "string" /\ Len(in.val) # 64)) =>
           /\ ret[t].status = "error"
           /\ KindOf(ret[t].err) = "LengthMismatch"
           /\ ret[t].value = << >>
      /\ ret[t].status = "ok" => Len(ret[t].value) = 32

C20_Witness ==
  \E t \in Threads :
    /\ Finished(t, "getPublicKeyEd25519")
    /\ call[t].input = BytesInput(K_Zero)
    /\ call[t].given = "false"
    /\ ret[t] = Ok(ed25519_gen_keypair(K_Zero))

\* C22: for a valid private key k, pubToAddress with sanitize = true gives
\* the same address for the 33-byte compressed and for the 65-byte
\* uncompressed encoding of k's public key, and that address is the one of
\* the 64-byte raw form (the uncompressed encoding without its prefix)
C22_CompressionSymmetry ==
  \A t \in Threads :
    Finished(t, "pubToAddress") /\ createOk /\ serializeWrites = "requested" =>
      \A k \in PubKeyScalars :
        LET raw == Tail(Ser(k, FALSE)) IN
        /\ ScalarInRange(k)
        /\ call[t].flag /\ call[t].input.val \in { Ser(k, TRUE), Ser(k, FALSE) } =>
             /\ ret[t] = Ok(ExpectedAddress(raw))
             /\ trace[t][Len(trace[t])] = LibCall("keccak256", NULL, raw)
        /\ call[t].input.val = raw => ret[t] = Ok(ExpectedAddress(raw))

C22_Witness ==
  \E t \in Threads :
    /\ Finished(t, "pubToAddress") /\ createOk /\ serializeWrites = "requested"
    /\ call[t].flag /\ call[t].impl = "NativeUtils"
    /\ call[t].input.val = Ser(K_MidDown, FALSE)
    /\ ret[t] = Ok(ExpectedAddress(Tail(Ser(K_MidDown, FALSE))))

\* C23: once g_ctx holds a created context it is never written again (not
\* reassigned, not reset to NULL), in either translation unit and under
\* every interleaving of calls
C23_ContextNeverRewritten ==
  [][\A impl \in Impls : g_ctx[impl] # NULL => g_ctx'[impl] = g_ctx[impl]]_vars

\* the same for HybridNativeUtils.cpp alone, together with what writes the
\* handle there: only the body of call_once, which runs once
C23_NeverRewrittenInNativeUtils ==
  [][/\ g_ctx["NativeUtils"] # NULL => g_ctx'["NativeUtils"] = g_ctx["NativeUtils"]
     /\ g_ctx'["NativeUtils"] # g_ctx["NativeUtils"] =>
          g_ctx_once = "running" /\ g_ctx_once' = "done"]_vars

\* the check a private key fails, told from the key itself: its form (the
\* JavaScript type), its length, its characters, its value.  The length of
\* a string is the number of its UTF-8 bytes for getPublicKey (the native
\* toPublicKey measures it) and the number of its characters for
\* getPublicKeyEd25519 (index.tsx measures it); a string of 64 characters
\* with an odd number of bytes fails the decoder's test for an even length
FailedCheck(op, input) ==
  IF input.type = "string" THEN
    LET utf8 == Utf8Encode(input.val) IN
    IF op = "getPublicKey" /\ Len(utf8) # 64 THEN "length"
    ELSE IF op = "getPublicKeyEd25519" /\ Len(input.val) # 64 THEN "length"
    ELSE IF Len(utf8) % 2 # 0 THEN "odd"
    ELSE IF \E i \in 1..Len(utf8) : ~IsHexDigit(utf8[i]) THEN "hex"
    ELSE IF op = "getPublicKey"
            /\ ~ScalarInRange([i \in 1..32 |-> 16 * DigitValue(input.val[2 * i - 1])
                                               + DigitValue(input.val[2 * i])])
    THEN "scalar" ELSE "none"
  ELSE IF input.type = "Uint8Array" THEN
    IF Len(input.val) # 32 THEN "length"
    ELSE IF op = "getPublicKey" /\ ~ScalarInRange(input.val) THEN "scalar" ELSE "none"
  ELSE IF input.type = "bigint" /\ op = "getPublicKey" THEN
    IF input.neg THEN "negative"
    ELSE IF input.val = << >> THEN "zero"
    ELSE IF MagAtLeastN(input.val) THEN "range" ELSE "none"
  ELSE "type"

\* the one message of each check, per entry point and form of the key
MessageFor(impl, op, form, check) ==
  IF op = "getPublicKeyEd25519" THEN
    CASE check = "type" -> "Ed25519 private key must be a hex string or Uint8Array"
      [] check = "length" /\ form = "string" ->
           "Ed25519 private key must be 32 bytes (64 hex characters)"
      [] check = "length" /\ form = "Uint8Array" -> "Ed25519 private key must be 32 bytes"
      [] check = "odd" -> "Invalid hex string: odd length"
      [] check = "hex" -> "Invalid hex string: contains non-hex characters"
  ELSE
    CASE check = "type" -> "Private key must be a hex string, Uint8Array, or bigint"
      [] check = "negative" -> "Private key must be positive"
      [] check = "zero" -> "Private key cannot be zero"
      [] check = "range" -> "Private key must be less than the secp256k1 curve order"
      [] check = "length" /\ form = "Uint8Array" -> "Uint8Array expected"
      [] check = "length" /\ form = "string" ->
           IF impl = "Nitro" THEN "Uint8Array expected"
           ELSE "Private key must be 64 hex characters (32 bytes)"
      [] check = "hex" ->
           IF impl = "Nitro" THEN "hex invalid"
           ELSE "Invalid hex string: contains non-hex characters"
      [] check = "scalar" -> InvalidScalarMessage(impl)

\* C24: the error of a rejected private key is fixed by the check the key
\* fails (per entry point and form of the key) and by nothing else: keys
\* that fail the same check get the same message, whatever their bytes
C24_MessageByCheckAlone ==
  \A t \in Threads :
    pc[t] = "done" /\ call[t].op \in { "getPublicKey", "getPublicKeyEd25519" }
      /\ createOk /\ serializeWrites = "requested" =>
        LET check == FailedCheck(call[t].op, call[t].input) IN
        IF check = "none" THEN ret[t].status = "ok"
        ELSE ret[t] = Throw(MessageFor(call[t].impl, call[t].op, call[t].input.type, check))

\* two keys of 64 characters with different characters that are no hex
\* digits: the second one, rejected
C24_Witness ==
  \E t \in Threads :
    /\ Finished(t, "getPublicKey") /\ createOk /\ serializeWrites = "requested"
    /\ call[t].impl = "NativeUtils"
    /\ call[t].input = HexInput(SetByte(SetByte(HexEncode(K_One, FALSE), 1, 48), 2, 120))
    /\ HexInput(SetByte(HexEncode(K_One, FALSE), 10, 103)) \in PrivateKeyInputs
    /\ ret[t] = Throw("Invalid hex string: contains non-hex characters")

\* the elements of an array that are no integer in 0..255
BadElements(arr) == { i \in 1..Len(arr) : arr[i] \notin 0..255 }

\* C25 as stated: keccak256 of a number[] fails whenever an element is not
\* an integer in 0..255, so nothing is hashed that differs from the input;
\* an array of valid bytes is hashed element by element
C25_InvalidElementsRejected ==
  \A t \in Threads :
    Finished(t, "keccak256") /\ call[t].input.type = "Array" =>
      IF BadElements(call[t].input.val) # {}
      THEN ret[t].status = "error" /\ trace[t] = << >>
      ELSE /\ ret[t].status = "ok"
           /\ trace[t] = << LibCall("keccak256", NULL, call[t].input.val) >>

\* C25 amended: outside production such an array is rejected with an error
\* that names its first invalid element, and nothing is hashed; in a
\* production build it is accepted and each element is hashed reduced
\* modulo 256; an array of valid bytes is hashed element by element in
\* every build
C25_RejectedOutsideProduction ==
  \A t \in Threads :
    Finished(t, "keccak256") /\ call[t].input.type = "Array" =>
      LET arr == call[t].input.val
          bad == BadElements(arr)
      IN
      IF bad = {} THEN
        /\ ret[t].status = "ok"
        /\ trace[t] = << LibCall("keccak256", NULL, arr) >>
      ELSE IF call[t].env # "production" THEN
        /\ ret[t].status = "error"
        /\ \E i \in bad :
             /\ \A j \in bad : i <= j
             /\ ret[t].err = "Invalid byte value at index " \o ToString(i - 1)
                               \o ": expected integer 0-255, got " \o ToString(arr[i])
        /\ trace[t] = << >>
      ELSE
        /\ ret[t].status = "ok"
        /\ Len(trace[t]) = 1 /\ trace[t][1].fn = "keccak256"
        /\ Len(trace[t][1].arg) = Len(arr)
        /\ \A i \in 1..Len(arr) :
             /\ trace[t][1].arg[i] \in 0..255
             /\ \E q \in -4..4 : arr[i] = trace[t][1].arg[i] + 256 * q
        /\ trace[t][1].arg # arr

C25_Witness ==
  \E t \in Threads :
    /\ Finished(t, "keccak256") /\ call[t].env = "production"
    /\ call[t].impl = "NativeUtils"
    /\ call[t].input = [type |-> "Array", val |-> << 0, 256, -1 >>, neg |-> FALSE]
    /\ ret[t] = Ok(Keccak256(<< 0, 0, 255 >>))

\* the operations that take the curve context
CurveOps ==
  { "secp256k1_ec_seckey_verify", "secp256k1_ec_pubkey_create",
    "secp256k1_ec_pubkey_parse", "secp256k1_ec_pubkey_serialize" }

\* C26: no curve operation is ever invoked with a null context: when
\* context creation returns null, every getPublicKey that has a well-formed
\* key and every pubToAddress, the first and the later ones, ends with the
\* context-initialisation error, and no curve operation has been reached
C26_NoCurveOpWithNullContext ==
  \A t \in Threads :
    /\ \A i \in 1..Len(trace[t]) :
         trace[t][i].fn \in CurveOps => trace[t][i].ctx # NULL
    /\ pc[t] # "crashed"
    /\ ~createOk /\ call[t].op \in { "getPublicKey", "pubToAddress" }
         /\ pc[t] = "done" /\ Len(buf[t].privateKeyBytes) + Len(buf[t].pubKeyBytes) > 0 =>
           /\ ret[t].status = "error"
           /\ \A i \in 1..Len(trace[t]) : trace[t][i].fn \notin CurveOps

\* the same for the calls into HybridNativeUtils.cpp alone, with the error
\* they end with
C26_NullContextRefusedInNativeUtils ==
  \A t \in Threads :
    call[t].impl = "NativeUtils" =>
      /\ \A i \in 1..Len(trace[t]) :
           trace[t][i].fn \in CurveOps => trace[t][i].ctx # NULL
      /\ pc[t] # "crashed"
      /\ ~createOk /\ call[t].op \in { "getPublicKey", "pubToAddress" }
           /\ pc[t] = "done" /\ Len(buf[t].privateKeyBytes) + Len(buf[t].pubKeyBytes) > 0 =>
             /\ ret[t] = Throw("Failed to initialize secp256k1 context")
             /\ \A i \in 1..Len(trace[t]) : trace[t][i].fn \notin CurveOps
             /\ g_ctx_once = "done"

\* C27: hexToBytes stores to the caller's buffer only when the whole string
\* is well-formed and has length 2 * expectedLen; it then stores to exactly
\* the indices 0..expectedLen-1, in order, and leaves the rest of the buffer
\* alone; on any failure the buffer is as it was.  With expectedLen = 32
\* (toPublicKey, getPublicKeyEd25519) no string of any length makes it store
\* at index 32 or beyond
C27_HexToBytesAllOrNothing ==
  \A t \in Threads :
    Finished(t, "hexToBytes") =>
      LET hex == call[t].input.val
          expectedLen == trace[t][1].arg[1]
          before == Fill(HexBufferSize, trace[t][1].arg[2])
          after == buf[t].privateKeyBytes
          stored == trace[t][2].arg
          wellFormed == Len(hex) % 2 = 0 /\ \A i \in 1..Len(hex) : IsHexDigit(hex[i])
      IN
      /\ Len(after) = HexBufferSize
      /\ \A j \in 1..Len(stored) : stored[j] < expectedLen /\ stored[j] < HexBufferSize
      /\ IF wellFormed /\ Len(hex) = 2 * expectedLen
         THEN /\ ret[t].status = "ok"
              /\ stored = [j \in 1..expectedLen |-> j - 1]
              /\ \A i \in 1..HexBufferSize :
                   after[i] = IF i <= expectedLen
                              THEN 16 * DigitValue(hex[2 * i - 1]) + DigitValue(hex[2 * i])
                              ELSE before[i]
         ELSE /\ ret[t].status = "error"
              /\ stored = << >>
              /\ after = before

\* a string of 66 hex digits handed over with expectedLen = 32, as the
\* native getPublicKeyEd25519 would: refused, nothing stored
C27_Witness ==
  \E t \in Threads :
    /\ Finished(t, "hexToBytes") /\ call[t].impl = "NativeUtils"
    /\ call[t].input.val = HexEncode(Fill(33, 171), TRUE)
    /\ trace[t][1].arg = << 32, 170 >>
    /\ ret[t] = Throw("Invalid hex string length")
    /\ buf[t].privateKeyBytes = Fill(32, 170)

\* ------------------------------------------------------------------------
\* C28: after sha512_init and any sequence of sha512_update calls, whatever
\* their lengths (0 included), curlen is below 128, length is 1024 times the
\* number of blocks handed to sha512_transform, length + 8 * curlen is 8
\* times the number of bytes fed, and no store to buf used an index of 128
\* or more
\* ------------------------------------------------------------------------
C28_UpdateKeepsCounters ==
  sha.op = "sha512" /\ sha.pc = "absorbing" =>
    /\ sha.ctx.curlen < 128
    /\ sha.ctx.length = 1024 * Len(sha.ctx.blocks)
    /\ sha.ctx.length + 8 * sha.ctx.curlen = 8 * Len(sha.fed)
    /\ sha.ctx.top < 128

\* 111 bytes, then a block's worth: the 17 bytes that fill buf, a block taken
\* from buf, and 111 bytes waiting again
C28_Witness ==
  /\ sha.op = "sha512" /\ sha.pc = "absorbing"
  /\ sha.lens = << 111, 128 >>
  /\ Len(sha.ctx.blocks) = 1
  /\ sha.ctx.curlen = 111
  /\ sha.ctx.length = 1024
  /\ sha.ctx.top = 127

\* ------------------------------------------------------------------------
\* C29: sha512_final on a context that has absorbed n bytes pads the message
\* to the least multiple of 128 that is at least n + 17: 0x80, then zeros,
\* then a 16-byte big-endian length whose upper 8 bytes are zero and whose
\* lower 8 bytes hold 8 * n; it makes exactly one more transform when
\* n mod 128 <= 111 and exactly two when n mod 128 >= 112, and never indexes
\* buf outside 0..127
\* ------------------------------------------------------------------------
\* the blocks of a hash that is done, one after the other
RECURSIVE Concat(_, _)
Concat(blocks, j) == IF j > Len(blocks) THEN << >> ELSE blocks[j] \o Concat(blocks, j + 1)

\* the value of the bytes b[from..to] read as a big-endian number
RECURSIVE BigEndian(_, _, _)
BigEndian(b, from, to) ==
  IF from > to THEN 0 ELSE 256 * BigEndian(b, from, to - 1) + b[to]

PaddedLen(n) == 128 * ((n + 17 + 127) \div 128)

C29_FinalPadsToBlocks ==
  sha.op = "sha512" /\ sha.pc = "done" =>
    LET n == Len(sha.fed)
        padded == Concat(sha.ctx.blocks, 1)
        P == Len(padded)
    IN /\ P = PaddedLen(n)
       /\ SubSeq(padded, 1, n) = sha.fed
       /\ padded[n + 1] = 128
       /\ \A i \in (n + 2)..(P - 16) : padded[i] = 0
       /\ \A i \in (P - 15)..(P - 8) : padded[i] = 0
       /\ BigEndian(padded, P - 7, P) = 8 * n
       /\ Len(sha.ctx.blocks) - (n \div 128) = (IF n % 128 <= 111 THEN 1 ELSE 2)
       /\ sha.ctx.top <= 127
       /\ sha.out = sha512_output(sha.ctx.h)

\* 112 bytes absorbed: the 0x80 leaves no room for the length, two blocks
C29_Witness ==
  /\ sha.op = "sha512" /\ sha.pc = "done"
  /\ Len(sha.fed) = 112
  /\ Len(sha.ctx.blocks) = 2
  /\ sha.ctx.blocks[1][113] = 128
  /\ sha.ctx.blocks[2][127] = 3 /\ sha.ctx.blocks[2][128] = 128

\* ------------------------------------------------------------------------
\* C30: the 128-byte blocks that sha512_update and sha512_final hand to
\* sha512_transform depend only on the bytes fed put end to end, not on how
\* they were split across update calls: a message fed in several updates
\* (as hmac_sha512 feeds the 128-byte padded key and then the data) gives
\* the blocks, and so the digest, of the same message fed in one update
\* ------------------------------------------------------------------------
\* the first k blocks of 128 bytes of a message
BlocksOf(msg, k) == [j \in 1..k |-> SubSeq(msg, 128 * (j - 1) + 1, 128 * j)]

\* a hash ended with the blocks, hash state and digest of r, a hash of the
\* same bytes fed in one update
SameAsOneUpdate(ctx, hash, r) ==
  r.ctx.blocks = ctx.blocks /\ r.ctx.h = ctx.h /\ r.hash = hash

OneUpdate(msg, junk) == sha512_final(sha512_update(sha512_init(UninitCtx(junk)), msg))

\* the message with the padding of sha512_final: 0x80, zeros up to 16 short
\* of a multiple of 128, and the length in bits on 16 bytes
PaddedMessage(msg) ==
  msg \o << 128 >> \o [i \in 1..(PaddedLen(Len(msg)) - Len(msg) - 9) |-> 0]
      \o [i \in 1..8 |-> ShiftedByte(8 * Len(msg), 8 - i)]

C30_SplitDoesNotMatter ==
  /\ sha.pc = "absorbing" =>
       /\ sha.ctx.blocks = BlocksOf(sha.fed, Len(sha.fed) \div 128)
       /\ SubSeq(sha.ctx.buf, 1, sha.ctx.curlen)
            = SubSeq(sha.fed, 128 * (Len(sha.fed) \div 128) + 1, Len(sha.fed))
  /\ sha.pc = "done" =>
       /\ sha.ctx.blocks = BlocksOf(PaddedMessage(sha.fed), PaddedLen(Len(sha.fed)) \div 128)
       /\ \E junk \in PrefillBytes :
            SameAsOneUpdate(sha.ctx, sha.out, OneUpdate(sha.fed, junk))
  /\ sha.op = "hmac_sha512" =>
       /\ sha.inner.blocks
            = BlocksOf(PaddedMessage(sha.innerFed), PaddedLen(Len(sha.innerFed)) \div 128)
       /\ \E junk \in PrefillBytes :
            SameAsOneUpdate(sha.inner, SubSeq(sha.fed, 129, 192),
                            OneUpdate(sha.innerFed, junk))

\* one byte, then 257: the first block is completed in buf, the second is
\* taken from the data, two bytes wait for sha512_final
C30_Witness ==
  /\ sha.op = "sha512" /\ sha.pc = "done"
  /\ sha.lens = << 1, 257 >>
  /\ Len(sha.ctx.blocks) = 3
  /\ sha.ctx.blocks[1] = SubSeq(sha.fed, 1, 128)
  /\ sha.ctx.blocks[2] = SubSeq(sha.fed, 129, 256)
  /\ Len(sha.out) = 64

\* ------------------------------------------------------------------------
\* C21: hmac_sha512(key, data) returns exactly 64 bytes, equal to
\* H(opad XOR K' || H(ipad XOR K' || data)), where H is the hash with 64-byte
\* digest and K' is a 128-byte block: H(key) padded with zeros when the key
\* is longer than 128 bytes, otherwise the key padded with zeros (a key of
\* exactly 128 bytes is used as it is, the empty key gives the all-zero
\* block); the empty key and empty data are accepted
\* ------------------------------------------------------------------------
Zeros(n) == [i \in 1..n |-> 0]

\* SHA-512 padding of a message (FIPS 180-4, 5.1.2)
Sha512Pad(msg) ==
  msg \o << 128 >> \o Zeros(PaddedLen(Len(msg)) - Len(msg) - 17)
      \o Zeros(8) \o [i \in 1..8 |-> ShiftedByte(8 * Len(msg), 8 - i)]

\* the hash state after the blocks j, j + 1, ... of a padded message
RECURSIVE HashBlocks(_, _, _)
HashBlocks(st, padded, j) ==
  IF 128 * j > Len(padded) THEN st
  ELSE HashBlocks(sha512_transform(st, SubSeq(padded, 128 * (j - 1) + 1, 128 * j)),
                  padded, j + 1)

\* H: SHA-512 of a message, by the blocks of its padding
H(msg) ==
  sha512_output(HashBlocks([h |-> sha512_init_h, blocks |-> << >>], Sha512Pad(msg), 1).h)

ZeroPadded(key) == key \o Zeros(128 - Len(key))

XorBlock(v, block) == [i \in 1..128 |-> Xor8[v][block[i]]]

HmacOf(kblock, data) == H(XorBlock(92, kblock) \o H(XorBlock(54, kblock) \o data))

C21_HmacIsNestedHash ==
  sha.op = "hmac_sha512" =>
    /\ sha.pc = "done"
    /\ Len(sha.out) = 64
    /\ sha.out = HmacOf(ZeroPadded(IF Len(sha.key) > 128 THEN H(sha.key) ELSE sha.key),
                        sha.data)

\* a key of exactly 128 bytes of 0x55 with data 01 02 03: the inner hash was
\* fed 128 bytes of 0x36 XOR 0x55, then the data
C21_Witness ==
  /\ sha.op = "hmac_sha512" /\ sha.pc = "done"
  /\ sha.key = Fill(128, 85) /\ sha.data = << 1, 2, 3 >>
  /\ sha.innerFed = Fill(128, 99) \o << 1, 2, 3 >>
  /\ Len(sha.out) = 64

====
